---- MODULE Spec2Model ----
(***************************************************************************)
(* A model of rJMX-Exporter: the rule matcher (transformer/rules.rs), the  *)
(* transformation engine (transformer/engine.rs), the Jolokia client with  *)
(* its retry loop and partial-failure fan-out (collector/client.rs) and    *)
(* the scrape handler (server/handlers.rs).                                *)
(*                                                                         *)
(* Strings are sequences of characters; a character is a one-element       *)
(* string token.  "e'" stands for a non-ASCII alphabetic character.        *)
(***************************************************************************)
EXTENDS Integers, Sequences, FiniteSets, TLC

VARIABLES
    config_rules, \* Config.rules: the rules as declared in the configuration file
    rules,        \* RuleSet.rules: the ordered rule list
    compiled,     \* indices of the rules whose compiled_pattern OnceCell is set
    fm_input,     \* the input handed to RuleSet::find_match
    fm_result,    \* what find_match returned for it
    fm_pc,        \* "ready" before the call, "done" after it, "idle" when unused
    lowercase_names,  \* TransformEngine.lowercase_names
    lowercase_labels, \* TransformEngine.lowercase_labels
    hash_order,   \* the iteration order of the HashMaps of this run
    responses,    \* the batch handed to TransformEngine::transform
    tr_result,    \* what transform returned for it
    tr_pc,        \* "ready" before the call, "done" after it, "idle" when unused
    retry_config, \* the RetryConfig handed to read_mbean_with_retry
    rt,           \* the locals of read_mbean_with_retry and where it stands
    rt_reads,     \* the outcomes of its read_mbean calls, in call order
    rt_sleeps,    \* its sleeps: the delay, and how many reads preceded it
    cf_mbeans,    \* the MBean names handed to collect_with_fallback
    cf_results,   \* the (mbean, result) entries it has pushed
    cf_calls,     \* its read_mbean calls, in call order: MBean and endpoint behaviour
    cf_pc,        \* "reading", "done", or "idle" when unused
    whitelist_object_names, \* Config.whitelist_object_names
    blacklist_object_names, \* Config.blacklist_object_names
    sc,           \* the last scrape: what the handler collected and served
    registry,     \* InternalMetrics: the scrape counters of the target, the rule counters
    formatter,    \* the PrometheusFormatter
    fmt_metrics,  \* the metrics handed to PrometheusFormatter::format
    fmt_output,   \* the text it returned
    fmt_pc,       \* "ready" before the call, "done" after it, "idle" when unused
    name_input,   \* the name handed to validate_metric_name
    name_output,  \* what it returned
    name_pc,      \* "ready", "done", or "idle" when unused
    sub_template, \* the template handed to apply_substitution
    sub_captures, \* the captures handed to it
    sub_output,   \* what it returned
    sub_pc,       \* "ready", "done", or "idle" when unused
    jolokia_url,  \* Config.jolokia.url
    target_name,  \* the target label the handler computed from it
    counter,      \* Counter.value: an AtomicU64
    counter_got,  \* what the last get returned
    counter_ops,  \* how many operations were called on the counter
    cell,         \* Rule.compiled_pattern: the OnceCell of one rule
    tasks,        \* the tasks that call Rule::compile on it
    compile_runs, \* how many times the initialising closure has run, and how it ended
    conversion,   \* one call of AttributeValue::as_f64 on an Integer
    gauge,        \* a Gauge and the tasks that call inc / dec on it
    histogram,    \* a Histogram and the tasks that call observe on it
    internal,     \* an InternalMetrics registry and the tasks that record to it
    java_regex,   \* one call of convert_java_regex
    typing        \* one configured rule on its way to the exposition text

matchVars == <<config_rules, rules, compiled, fm_input, fm_result, fm_pc>>

engineVars == <<lowercase_names, lowercase_labels, hash_order, responses, tr_result, tr_pc>>

retryVars == <<retry_config, rt, rt_reads, rt_sleeps>>

collectVars == <<cf_mbeans, cf_results, cf_calls, cf_pc>>

scrapeVars == <<whitelist_object_names, blacklist_object_names, sc, registry>>

formatVars == <<formatter, fmt_metrics, fmt_output, fmt_pc>>

nameVars == <<name_input, name_output, name_pc>>

substVars == <<sub_template, sub_captures, sub_output, sub_pc>>

urlVars == <<jolokia_url, target_name>>

counterVars == <<counter, counter_got, counter_ops>>

onceVars == <<cell, tasks, compile_runs>>

unitVars == <<conversion, gauge, histogram, internal, java_regex, typing>>

libVars == <<formatVars, nameVars, substVars, urlVars, counterVars, onceVars, unitVars>>

vars == <<matchVars, engineVars, retryVars, collectVars, scrapeVars, libVars>>

-----------------------------------------------------------------------------
(* Characters                                                              *)

AsciiLower == {"a", "b", "c", "d", "e", "f", "g", "h", "i", "j", "k", "l", "m",
               "n", "o", "p", "q", "r", "s", "t", "u", "v", "w", "x", "y", "z"}
AsciiUpper == {"A", "B", "C", "D", "E", "F", "G", "H", "I", "J", "K", "L", "M",
               "N", "O", "P", "Q", "R", "S", "T", "U", "V", "W", "X", "Y", "Z"}
AsciiDigits == {"0", "1", "2", "3", "4", "5", "6", "7", "8", "9"}
NonAsciiLetters == {"e'"}

IsAsciiAlphabetic(c) == c \in AsciiLower \cup AsciiUpper
IsAsciiDigit(c) == c \in AsciiDigits
IsAsciiAlphanumeric(c) == IsAsciiAlphabetic(c) \/ IsAsciiDigit(c)
\* char::is_alphabetic / is_alphanumeric are the Unicode predicates
IsAlphabetic(c) == IsAsciiAlphabetic(c) \/ c \in NonAsciiLetters
IsAlphanumeric(c) == IsAlphabetic(c) \/ IsAsciiDigit(c)

NoChar == "EOF"
CharAt(s, i) == IF i >= 1 /\ i <= Len(s) THEN s[i] ELSE NoChar

LowerOf(c) ==
    CASE c = "A" -> "a" [] c = "B" -> "b" [] c = "C" -> "c" [] c = "D" -> "d"
      [] c = "E" -> "e" [] c = "F" -> "f" [] c = "G" -> "g" [] c = "H" -> "h"
      [] c = "I" -> "i" [] c = "J" -> "j" [] c = "K" -> "k" [] c = "L" -> "l"
      [] c = "M" -> "m" [] c = "N" -> "n" [] c = "O" -> "o" [] c = "P" -> "p"
      [] c = "Q" -> "q" [] c = "R" -> "r" [] c = "S" -> "s" [] c = "T" -> "t"
      [] c = "U" -> "u" [] c = "V" -> "v" [] c = "W" -> "w" [] c = "X" -> "x"
      [] c = "Y" -> "y" [] c = "Z" -> "z" [] OTHER -> c

to_lowercase(s) == [i \in 1..Len(s) |-> LowerOf(s[i])]

DigitValue(c) ==
    CASE c = "0" -> 0 [] c = "1" -> 1 [] c = "2" -> 2 [] c = "3" -> 3
      [] c = "4" -> 4 [] c = "5" -> 5 [] c = "6" -> 6 [] c = "7" -> 7
      [] c = "8" -> 8 [] c = "9" -> 9 [] OTHER -> 0

None == [some |-> FALSE]
\* a call that has not returned
NoReturn == [ok |-> FALSE, error |-> [kind |-> "NotReturned", code |-> 0, message |-> <<>>]]
Some(v) == [some |-> TRUE, v |-> v]

-----------------------------------------------------------------------------
(* convert_java_regex: Java regex syntax to the native dialect             *)

RECURSIVE ConvertFrom(_, _, _)
ConvertFrom(p, i, result) ==
    IF i > Len(p) THEN [ok |-> TRUE, s |-> result]
    ELSE LET c == p[i] IN
      CASE c = "(" ->
             IF CharAt(p, i + 1) = "?"
             THEN LET d == CharAt(p, i + 2) IN
                  CASE d = "<" ->
                         LET e == CharAt(p, i + 3) IN
                         CASE e = "=" -> [ok |-> FALSE, err |-> "UnsupportedJavaFeature",
                                          feature |-> "positive lookbehind"]
                           [] e = "!" -> [ok |-> FALSE, err |-> "UnsupportedJavaFeature",
                                          feature |-> "negative lookbehind"]
                           [] OTHER -> ConvertFrom(p, i + 3, result \o <<"(", "?", "P", "<">>)
                    [] d = ">" -> [ok |-> FALSE, err |-> "UnsupportedJavaFeature",
                                   feature |-> "atomic groups"]
                    [] d = "=" -> [ok |-> FALSE, err |-> "UnsupportedJavaFeature",
                                   feature |-> "positive lookahead"]
                    [] d = "!" -> [ok |-> FALSE, err |-> "UnsupportedJavaFeature",
                                   feature |-> "negative lookahead"]
                    [] OTHER -> ConvertFrom(p, i + 2, result \o <<"(", "?">>)
             ELSE ConvertFrom(p, i + 1, result \o <<"(">>)
        [] c \in {"+", "*", "?"} ->
             IF CharAt(p, i + 1) = "+"
             THEN ConvertFrom(p, i + 2, result \o <<c>>)
             ELSE ConvertFrom(p, i + 1, result \o <<c>>)
        [] c = "\\" ->
             IF i + 1 <= Len(p)
             THEN ConvertFrom(p, i + 2, result \o <<c, p[i + 1]>>)
             ELSE ConvertFrom(p, i + 1, result \o <<c>>)
        [] OTHER -> ConvertFrom(p, i + 1, result \o <<c>>)

convert_java_regex(pattern) == ConvertFrom(pattern, 1, <<>>)

-----------------------------------------------------------------------------
(* The regex engine behind Regex::new and Regex::captures, for the subset  *)
(* of the dialect the rules of this model use: literals, escapes, `.`,     *)
(* `\w`, `\d`, character classes, the quantifiers * + ? on a single        *)
(* character, and (nested) capturing, named and non-capturing groups.      *)
(* Search is unanchored, leftmost, greedy.                                 *)

Lit(c) == [kind |-> "lit", neg |-> FALSE, chars |-> {c}]
AnyChar == [kind |-> "any", neg |-> FALSE, chars |-> {}]
WordClass == [kind |-> "word", neg |-> FALSE, chars |-> {}]
DigitClass == [kind |-> "digit", neg |-> FALSE, chars |-> {}]

ClassMatches(cls, ch) ==
    CASE cls.kind = "any" -> TRUE
      [] cls.kind = "word" -> IsAlphanumeric(ch) \/ ch = "_"
      [] cls.kind = "digit" -> IsAsciiDigit(ch)
      [] OTHER -> (ch \in cls.chars) # cls.neg

CharAtom(cls) == [t |-> "char", cls |-> cls, q |-> "one", gid |-> 0, name |-> <<>>]
OpenAtom(gid, name) == [t |-> "open", cls |-> AnyChar, q |-> "one", gid |-> gid, name |-> name]
CloseAtom(gid) == [t |-> "close", cls |-> AnyChar, q |-> "one", gid |-> gid, name |-> <<>>]

RegexErr(why) == [ok |-> FALSE, err |-> "InvalidPattern", why |-> why]

\* index of the first occurrence of c in s at or after i, or 0
RECURSIVE IndexFrom(_, _, _)
IndexFrom(s, c, i) ==
    IF i > Len(s) THEN 0 ELSE IF s[i] = c THEN i ELSE IndexFrom(s, c, i + 1)

QuantOf(c) == CASE c = "*" -> "star" [] c = "+" -> "plus" [] OTHER -> "opt"

\* atoms: parsed so far; stack: gids of the open groups; ngroups: capturing groups seen
RECURSIVE ParseFrom(_, _, _, _, _)
ParseFrom(s, i, atoms, stack, ngroups) ==
    IF i > Len(s)
    THEN IF stack = <<>> THEN [ok |-> TRUE, atoms |-> atoms, ngroups |-> ngroups]
         ELSE RegexErr("unclosed group")
    ELSE LET c == s[i] IN
      CASE c = "(" ->
             IF CharAt(s, i + 1) = "?"
             THEN CASE CharAt(s, i + 2) = ":" ->
                         ParseFrom(s, i + 3, Append(atoms, OpenAtom(0, <<>>)),
                                   <<0>> \o stack, ngroups)
                    [] CharAt(s, i + 2) = "P" /\ CharAt(s, i + 3) = "<" ->
                         LET close == IndexFrom(s, ">", i + 4) IN
                         IF close = 0 \/ close = i + 4
                         THEN RegexErr("invalid capture group name")
                         ELSE ParseFrom(s, close + 1,
                                        Append(atoms, OpenAtom(ngroups + 1,
                                                               SubSeq(s, i + 4, close - 1))),
                                        <<ngroups + 1>> \o stack, ngroups + 1)
                    [] OTHER -> RegexErr("unrecognized flag or look-around")
             ELSE ParseFrom(s, i + 1, Append(atoms, OpenAtom(ngroups + 1, <<>>)),
                            <<ngroups + 1>> \o stack, ngroups + 1)
        [] c = ")" ->
             IF stack = <<>> THEN RegexErr("unopened group")
             ELSE ParseFrom(s, i + 1, Append(atoms, CloseAtom(Head(stack))),
                            Tail(stack), ngroups)
        [] c \in {"*", "+", "?"} ->
             IF atoms = <<>> \/ atoms[Len(atoms)].t = "open"
             THEN RegexErr("repetition operator missing expression")
             ELSE IF atoms[Len(atoms)].t = "char" /\ atoms[Len(atoms)].q = "one"
             THEN ParseFrom(s, i + 1,
                            [atoms EXCEPT ![Len(atoms)].q = QuantOf(c)], stack, ngroups)
             ELSE [ok |-> FALSE, err |-> "NotModelled", why |-> "quantified group"]
        [] c = "\\" ->
             LET e == CharAt(s, i + 1) IN
             CASE e = NoChar -> RegexErr("incomplete escape sequence")
               [] e = "w" -> ParseFrom(s, i + 2, Append(atoms, CharAtom(WordClass)),
                                       stack, ngroups)
               [] e = "d" -> ParseFrom(s, i + 2, Append(atoms, CharAtom(DigitClass)),
                                       stack, ngroups)
               [] IsAlphanumeric(e) ->
                    [ok |-> FALSE, err |-> "NotModelled", why |-> "escape class"]
               [] OTHER -> ParseFrom(s, i + 2, Append(atoms, CharAtom(Lit(e))),
                                     stack, ngroups)
        [] c = "[" ->
             LET neg == CharAt(s, i + 1) = "^"
                 first == IF neg THEN i + 2 ELSE i + 1
                 close == IndexFrom(s, "]", first + 1)
             IN  IF close = 0 THEN RegexErr("unclosed character class")
                 ELSE ParseFrom(s, close + 1,
                                Append(atoms,
                                       CharAtom([kind |-> "set", neg |-> neg,
                                                 chars |-> {s[j] : j \in first..(close - 1)}])),
                                stack, ngroups)
        [] c = "." -> ParseFrom(s, i + 1, Append(atoms, CharAtom(AnyChar)), stack, ngroups)
        [] c \in {"|", "^", "$", "{"} ->
             [ok |-> FALSE, err |-> "NotModelled", why |-> "alternation, anchor or counted repetition"]
        [] OTHER -> ParseFrom(s, i + 1, Append(atoms, CharAtom(Lit(c))), stack, ngroups)

\* Regex::new
RegexNew(s) == ParseFrom(s, 1, <<>>, <<>>, 0)

NoMatch == [ok |-> FALSE]

\* the number of consecutive characters of s from pos on that cls matches, at most limit
RECURSIVE RunLength(_, _, _, _)
RunLength(cls, s, pos, limit) ==
    IF limit = 0 \/ pos > Len(s) \/ ~ClassMatches(cls, s[pos]) THEN 0
    ELSE 1 + RunLength(cls, s, pos + 1, limit - 1)

RECURSIVE MatchAtoms(_, _, _, _, _)
RECURSIVE TryRun(_, _, _, _, _, _, _)
\* greedy: the longest run first, then shorter ones
TryRun(atoms, k, s, pos, caps, n, min) ==
    IF n < min THEN NoMatch
    ELSE LET r == MatchAtoms(atoms, k + 1, s, pos + n, caps) IN
         IF r.ok THEN r ELSE TryRun(atoms, k, s, pos, caps, n - 1, min)

MatchAtoms(atoms, k, s, pos, caps) ==
    IF k > Len(atoms) THEN [ok |-> TRUE, end |-> pos, caps |-> caps]
    ELSE LET a == atoms[k] IN
      CASE a.t = "open" ->
             MatchAtoms(atoms, k + 1, s, pos,
                        IF a.gid = 0 THEN caps ELSE [caps EXCEPT ![a.gid].from = pos])
        [] a.t = "close" ->
             MatchAtoms(atoms, k + 1, s, pos,
                        IF a.gid = 0 THEN caps ELSE [caps EXCEPT ![a.gid].to = pos])
        [] a.q = "one" ->
             IF pos <= Len(s) /\ ClassMatches(a.cls, s[pos])
             THEN MatchAtoms(atoms, k + 1, s, pos + 1, caps)
             ELSE NoMatch
        [] a.q = "opt" ->
             TryRun(atoms, k, s, pos, caps, RunLength(a.cls, s, pos, 1), 0)
        [] a.q = "plus" ->
             TryRun(atoms, k, s, pos, caps, RunLength(a.cls, s, pos, Len(s)), 1)
        [] OTHER ->
             TryRun(atoms, k, s, pos, caps, RunLength(a.cls, s, pos, Len(s)), 0)

RECURSIVE SearchFrom(_, _, _)
SearchFrom(re, s, start) ==
    IF start > Len(s) + 1 THEN NoMatch
    ELSE LET r == MatchAtoms(re.atoms, 1, s, start,
                             [g \in 1..re.ngroups |-> [from |-> 0, to |-> 0]])
         IN  IF r.ok
             THEN [ok |-> TRUE,
                   groups |-> <<Some(SubSeq(s, start, r.end - 1))>> \o
                              [g \in 1..re.ngroups |->
                                  Some(SubSeq(s, r.caps[g].from, r.caps[g].to - 1))],
                   names |-> {[name |-> re.atoms[j].name, gid |-> re.atoms[j].gid] :
                                 j \in {x \in 1..Len(re.atoms) :
                                           re.atoms[x].t = "open" /\ re.atoms[x].name # <<>>}}]
             ELSE SearchFrom(re, s, start + 1)

\* Regex::captures: None, or the captures of the leftmost match
RegexCaptures(re, s) == SearchFrom(re, s, 1)

\* Captures::get(index) and Captures::name(name)
CapturesGet(caps, index) ==
    IF index + 1 <= Len(caps.groups) THEN caps.groups[index + 1] ELSE None
CapturesName(caps, name) ==
    IF \E n \in caps.names : n.name = name
    THEN caps.groups[(CHOOSE n \in caps.names : n.name = name).gid + 1]
    ELSE None

-----------------------------------------------------------------------------
(* apply_substitution: $N and $name in a template                          *)

\* the end (exclusive) of the run of characters from i on that satisfy P
RECURSIVE DigitsEnd(_, _)
DigitsEnd(t, i) == IF i <= Len(t) /\ IsAsciiDigit(t[i]) THEN DigitsEnd(t, i + 1) ELSE i
\* the identifier scan with the underscore taken as an identifier character
RECURSIVE IdentEnd_WithUnderscore(_, _)
IdentEnd_WithUnderscore(t, i) ==
    IF i <= Len(t) /\ (IsAlphanumeric(t[i]) \/ t[i] = "_")
    THEN IdentEnd_WithUnderscore(t, i + 1) ELSE i
RECURSIVE IdentEnd(_, _)
IdentEnd(t, i) == IF i <= Len(t) /\ IsAlphanumeric(t[i]) THEN IdentEnd(t, i + 1) ELSE i

\* str::parse::<usize> of a digit string
RECURSIVE ParseUsize(_)
ParseUsize(d) ==
    IF d = <<>> THEN 0 ELSE 10 * ParseUsize(SubSeq(d, 1, Len(d) - 1)) + DigitValue(d[Len(d)])

OptStr(o) == IF o.some THEN o.v ELSE <<>>
OptSeq(o) == IF o.some THEN o.v ELSE <<>>

RECURSIVE SubstFrom(_, _, _, _)
SubstFrom(t, caps, i, result) ==
    IF i > Len(t) THEN result
    ELSE IF t[i] = "$"
    THEN LET first == CharAt(t, i + 1) IN
         CASE IsAsciiDigit(first) ->
                LET e == DigitsEnd(t, i + 1) IN
                SubstFrom(t, caps, e,
                          result \o OptStr(CapturesGet(caps, ParseUsize(SubSeq(t, i + 1, e - 1)))))
           [] IsAlphabetic(first) ->
                LET e == IdentEnd(t, i + 1) IN
                SubstFrom(t, caps, e,
                          result \o OptStr(CapturesName(caps, SubSeq(t, i + 1, e - 1))))
           [] OTHER -> SubstFrom(t, caps, i + 1, result \o <<"$">>)
    ELSE SubstFrom(t, caps, i + 1, result \o <<t[i]>>)

apply_substitution(template, captures) == SubstFrom(template, captures, 1, <<>>)


-----------------------------------------------------------------------------
(* Rules and the rule set                                                  *)

MetricTypes == {"Gauge", "Counter", "Histogram", "Untyped"}

\* Rule::new followed by with_help / with_label / with_value / with_value_factor
Rule(pattern, name, metric_type, labels, help, value_factor) ==
    [pattern |-> pattern, name |-> name, metric_type |-> metric_type,
     labels |-> labels, help |-> help, value |-> None, value_factor |-> value_factor]

\* config_to_ruleset: one Rule per configured rule, in declaration order
RuleOfConfig(r) ==
    LET rule_type == to_lowercase(r.type)
        metric_type == CASE rule_type = <<"g", "a", "u", "g", "e">> -> "Gauge"
                         [] rule_type = <<"c", "o", "u", "n", "t", "e", "r">> -> "Counter"
                         [] OTHER -> "Untyped"
    IN  Rule(r.pattern, r.name, metric_type, r.labels, r.help, r.value_factor)

config_to_ruleset(cfg) == [i \in 1..Len(cfg) |-> RuleOfConfig(cfg[i])]

\* Rule::compile: the memoised regex, or the conversion / compilation error.
\* memo: whether compiled_pattern is already set.
RuleCompile(rule, memo) ==
    LET converted == convert_java_regex(rule.pattern) IN
    IF memo THEN RegexNew(converted.s)
    ELSE IF ~converted.ok THEN converted
    ELSE RegexNew(converted.s)

\* Rule::matches: Err, or Ok(None), or Ok(Some(RuleMatch))
RuleMatches(rule, memo, input) ==
    LET re == RuleCompile(rule, memo) IN
    IF ~re.ok THEN [kind |-> "Err", err |-> re.err]
    ELSE LET caps == RegexCaptures(re, input) IN
         IF caps.ok THEN [kind |-> "Some", captures |-> caps]
         ELSE [kind |-> "None"]

\* RuleSet::find_match from rule i on.  evaluated: the rules Rule::matches
\* was called on, in call order; comp: the rules whose memo is set.
RECURSIVE FindFrom_LastMatch(_, _, _, _, _)
FindFrom_LastMatch(rs, comp, input, i, evaluated) ==
    IF i > Len(rs) THEN [kind |-> "None", evaluated |-> evaluated, compiled |-> comp]
    ELSE LET m == RuleMatches(rs[i], i \in comp, input) IN
         CASE m.kind = "Err" ->
                [kind |-> "Err", rule |-> i, err |-> m.err,
                 evaluated |-> Append(evaluated, i), compiled |-> comp]
           [] m.kind = "Some" ->
                LET rest == FindFrom_LastMatch(rs, comp \cup {i}, input, i + 1,
                                               Append(evaluated, i))
                IN  IF rest.kind = "None"
                    THEN [kind |-> "Some", rule |-> i, captures |-> m.captures,
                          evaluated |-> rest.evaluated, compiled |-> rest.compiled]
                    ELSE rest
           [] OTHER ->
                FindFrom_LastMatch(rs, comp \cup {i}, input, i + 1, Append(evaluated, i))

RECURSIVE FindFrom(_, _, _, _, _)
FindFrom(rs, comp, input, i, evaluated) ==
    IF i > Len(rs) THEN [kind |-> "None", evaluated |-> evaluated, compiled |-> comp]
    ELSE LET m == RuleMatches(rs[i], i \in comp, input) IN
         CASE m.kind = "Err" ->
                [kind |-> "Err", rule |-> i, err |-> m.err,
                 evaluated |-> Append(evaluated, i), compiled |-> comp]
           [] m.kind = "Some" ->
                [kind |-> "Some", rule |-> i, captures |-> m.captures,
                 evaluated |-> Append(evaluated, i), compiled |-> comp \cup {i}]
           [] OTHER ->
                FindFrom(rs, comp \cup {i}, input, i + 1, Append(evaluated, i))

find_match(rs, comp, input) == FindFrom(rs, comp, input, 1, <<>>)

\* RuleSet::compile_all: Ok with every memo set, or the first failure
compile_all(rs) ==
    IF \A i \in 1..Len(rs) : RuleCompile(rs[i], FALSE).ok
    THEN [ok |-> TRUE, compiled |-> 1..Len(rs)]
    ELSE [ok |-> FALSE,
          index |-> CHOOSE i \in 1..Len(rs) :
                        /\ ~RuleCompile(rs[i], FALSE).ok
                        /\ \A j \in 1..(i - 1) : RuleCompile(rs[j], FALSE).ok]


-----------------------------------------------------------------------------
(* ObjectName::parse and TransformEngine::flatten_mbean_name               *)

\* byte order of the characters the model uses
CharOrder == <<" ", "\"", "$", "(", ")", "*", "+", ",", "-", ".",
               "0", "1", "2", "3", "4", "5", "6", "7", "8", "9",
               ":", "<", "=", ">", "?",
               "A", "B", "C", "D", "E", "F", "G", "H", "I", "J", "K", "L", "M",
               "N", "O", "P", "Q", "R", "S", "T", "U", "V", "W", "X", "Y", "Z",
               "[", "\\", "]", "^", "_",
               "a", "b", "c", "d", "e", "f", "g", "h", "i", "j", "k", "l", "m",
               "n", "o", "p", "q", "r", "s", "t", "u", "v", "w", "x", "y", "z",
               "{", "|", "e'">>
Ord(c) == CHOOSE i \in 1..Len(CharOrder) : CharOrder[i] = c

\* a < b as Strings
RECURSIVE StrLess(_, _)
StrLess(a, b) ==
    IF b = <<>> THEN FALSE
    ELSE IF a = <<>> THEN TRUE
    ELSE IF a[1] = b[1] THEN StrLess(Tail(a), Tail(b))
    ELSE Ord(a[1]) < Ord(b[1])

\* str::trim
RECURSIVE TrimStart(_)
TrimStart(s) == IF s # <<>> /\ s[1] = " " THEN TrimStart(Tail(s)) ELSE s
RECURSIVE TrimEnd(_)
TrimEnd(s) ==
    IF s # <<>> /\ s[Len(s)] = " " THEN TrimEnd(SubSeq(s, 1, Len(s) - 1)) ELSE s
Trim(s) == TrimEnd(TrimStart(s))

\* str::splitn(2, c)
SplitN2(s, c) ==
    LET i == IndexFrom(s, c, 1) IN
    IF i = 0 THEN <<s>> ELSE <<SubSeq(s, 1, i - 1), SubSeq(s, i + 1, Len(s))>>

\* str::split(c)
RECURSIVE Split(_, _)
Split(s, c) ==
    LET i == IndexFrom(s, c, 1) IN
    IF i = 0 THEN <<s>>
    ELSE <<SubSeq(s, 1, i - 1)>> \o Split(SubSeq(s, i + 1, Len(s)), c)

\* the properties loop: a later duplicate key overwrites an earlier one
RECURSIVE ParseProps(_, _, _)
ParseProps(props, i, map) ==
    IF i > Len(props) THEN [ok |-> TRUE, properties |-> map]
    ELSE LET kv == SplitN2(props[i], "=") IN
         IF Len(kv) # 2 \/ Trim(kv[1]) = <<>> THEN [ok |-> FALSE]
         ELSE ParseProps(props, i + 1,
                         {e \in map : e.k # Trim(kv[1])} \cup
                             {[k |-> Trim(kv[1]), v |-> Trim(kv[2])]})

ObjectNameParse(s) ==
    LET parts == SplitN2(s, ":") IN
    IF Len(parts) # 2 \/ Trim(parts[1]) = <<>> THEN [ok |-> FALSE]
    ELSE LET ps == ParseProps(Split(parts[2], ","), 1, {}) IN
         IF ~ps.ok \/ ps.properties = {} THEN [ok |-> FALSE]
         ELSE [ok |-> TRUE, domain |-> Trim(parts[1]), properties |-> ps.properties]

\* props.sort_by_key(|(k, _)| *k)
RECURSIVE SortByKey(_)
SortByKey(map) ==
    IF map = {} THEN <<>>
    ELSE LET least == CHOOSE e \in map : \A f \in map : f = e \/ StrLess(e.k, f.k)
         IN  <<least>> \o SortByKey(map \ {least})

RECURSIVE JoinProps(_)
JoinProps(props) ==
    IF props = <<>> THEN <<>>
    ELSE <<"<">> \o props[1].k \o <<"=">> \o props[1].v \o <<">">> \o JoinProps(Tail(props))

\* attribute: None or Some(string)
flatten_mbean_name(mbean, attribute) ==
    LET on == ObjectNameParse(mbean) IN
    IF ~on.ok
    THEN IF attribute.some THEN mbean \o <<"<">> \o attribute.v \o <<">">> ELSE mbean
    ELSE LET result == on.domain \o JoinProps(SortByKey(on.properties)) IN
         IF ~attribute.some THEN result
         ELSE LET attr == attribute.v
                  bracket_pos == IndexFrom(attr, "<", 1)
              IN  IF bracket_pos # 0
                  THEN result \o <<"<">> \o SubSeq(attr, 1, bracket_pos - 1) \o <<">">>
                              \o SubSeq(attr, bracket_pos, Len(attr))
                  ELSE result \o <<"<">> \o attr \o <<">">>


-----------------------------------------------------------------------------
(* Values: MBeanValue and AttributeValue (collector/parser.rs).  A HashMap *)
(* is a set of [k, v] entries with distinct keys; numbers are integers.    *)

AttrInteger(n) == [t |-> "Integer", n |-> n, s |-> <<>>, map |-> {}]
AttrFloat(n) == [t |-> "Float", n |-> n, s |-> <<>>, map |-> {}]
AttrString(s) == [t |-> "String", n |-> 0, s |-> s, map |-> {}]
AttrBoolean == [t |-> "Boolean", n |-> 0, s |-> <<>>, map |-> {}]
AttrNull == [t |-> "Null", n |-> 0, s |-> <<>>, map |-> {}]
AttrObject(map) == [t |-> "Object", n |-> 0, s |-> <<>>, map |-> map]

ValNumber(n) == [t |-> "Number", n |-> n, map |-> {}]
ValString == [t |-> "String", n |-> 0, map |-> {}]
ValNull == [t |-> "Null", n |-> 0, map |-> {}]
ValComposite(map) == [t |-> "Composite", n |-> 0, map |-> map]
ValWildcard(map) == [t |-> "Wildcard", n |-> 0, map |-> map]

\* str::parse::<f64> on the strings of the model: decimal digit strings parse
RECURSIVE AllDigits(_)
AllDigits(s) == s = <<>> \/ (IsAsciiDigit(s[1]) /\ AllDigits(Tail(s)))
StrParseF64(s) == IF s # <<>> /\ AllDigits(s) THEN Some(ParseUsize(s)) ELSE None

\* AttributeValue::as_f64
as_f64(value) ==
    CASE value.t = "Integer" -> Some(value.n)
      [] value.t = "Float" -> Some(value.n)
      [] value.t = "String" -> StrParseF64(value.s)
      [] OTHER -> None

\* HashMap::insert
MapInsert(map, k, v) == {e \in map : e.k # k} \cup {[k |-> k, v |-> v]}
MapKeys(map) == {e.k : e \in map}
MapGet(map, k) == IF k \in MapKeys(map) THEN Some((CHOOSE e \in map : e.k = k).v) ELSE None

Reverse(s) == [i \in 1..Len(s) |-> s[Len(s) + 1 - i]]
\* the order in which a HashMap is iterated: unspecified; the model runs
\* every map of one call in ascending or in descending key order
IterOrder(map, order) == IF order = "asc" THEN SortByKey(map) ELSE Reverse(SortByKey(map))

\* RequestInfo.attribute: absent, one name, or several
AttrAbsent == [form |-> "none", names |-> <<>>]
AttrSingle(a) == [form |-> "string", names |-> <<a>>]
AttrMany(as) == [form |-> "array", names |-> as]

Response(mbean, attribute, status, value, error) ==
    [request |-> [mbean |-> mbean, attribute |-> attribute],
     status |-> status, value |-> value, error |-> error]

-----------------------------------------------------------------------------
(* TransformEngine (transformer/engine.rs)                                 *)

\* does the name match ^[a-zA-Z_:][a-zA-Z0-9_:]*$
IsValidMetricName(name) ==
    /\ name # <<>>
    /\ IsAsciiAlphabetic(name[1]) \/ name[1] \in {"_", ":"}
    /\ \A i \in 2..Len(name) : IsAsciiAlphanumeric(name[i]) \/ name[i] \in {"_", ":"}

\* does the name match ^[a-zA-Z_][a-zA-Z0-9_]*$
IsValidLabelName(name) ==
    /\ name # <<>>
    /\ IsAsciiAlphabetic(name[1]) \/ name[1] = "_"
    /\ \A i \in 2..Len(name) : IsAsciiAlphanumeric(name[i]) \/ name[i] = "_"

validate_metric_name(name) ==
    IF IsValidMetricName(name) THEN name
    ELSE LET sanitized ==
                 [i \in 1..Len(name) |->
                     IF i = 1
                     THEN IF IsAsciiAlphabetic(name[i]) \/ name[i] \in {"_", ":"}
                          THEN name[i] ELSE "_"
                     ELSE IF IsAsciiAlphanumeric(name[i]) \/ name[i] \in {"_", ":"}
                          THEN name[i] ELSE "_"]
         IN  IF sanitized # <<>> /\ IsAsciiDigit(sanitized[1])
             THEN <<"_">> \o sanitized
             ELSE sanitized

SanitizeLabelKey(k) ==
    IF IsValidLabelName(k) THEN k
    ELSE [i \in 1..Len(k) |->
             IF i = 1
             THEN IF IsAsciiAlphabetic(k[i]) \/ k[i] = "_" THEN k[i] ELSE "_"
             ELSE IF IsAsciiAlphanumeric(k[i]) \/ k[i] = "_" THEN k[i] ELSE "_"]

\* collect an iterator of (key, value) pairs into a HashMap
RECURSIVE CollectMap(_, _)
CollectMap(entries, map) ==
    IF entries = <<>> THEN map
    ELSE CollectMap(Tail(entries), MapInsert(map, entries[1].k, entries[1].v))

SanitizeKeys(it) ==
    CollectMap([i \in 1..Len(it) |-> [k |-> SanitizeLabelKey(it[i].k), v |-> it[i].v]], {})

validate_labels(labels, order) == SanitizeKeys(IterOrder(labels, order))

\* Rule::apply_labels
SubstituteLabels(it, captures) ==
    CollectMap([i \in 1..Len(it) |-> [k |-> apply_substitution(it[i].k, captures),
                                       v |-> apply_substitution(it[i].v, captures)]], {})

apply_labels(rule, captures, order) == SubstituteLabels(IterOrder(rule.labels, order), captures)

LowercaseEntries(it) ==
    CollectMap([i \in 1..Len(it) |-> [k |-> to_lowercase(it[i].k), v |-> it[i].v]], {})

\* the lowercase_labels branch of transform_simple
LowercaseKeys(labels, order) == LowercaseEntries(IterOrder(labels, order))

Engine(rs, lc_names, lc_labels) ==
    [rules |-> rs, lowercase_names |-> lc_names, lowercase_labels |-> lc_labels]

\* The state threaded through one transform call:
\*   metrics   the metrics produced so far
\*   compiled  the rules whose memo is set
\*   offered   the (response, path) pairs handed to find_match
\*   err       the error that ended the call, if any
\*   order     the iteration order of this call's HashMaps
StartAcc(comp, order) ==
    [metrics |-> <<>>, compiled |-> comp, offered |-> <<>>, err |-> None, order |-> order]

\* the map_err of transform_simple
TransformErrorOf(err) ==
    CASE err = "InvalidPattern" -> "Rule(InvalidPattern)"
      [] err = "UnsupportedJavaFeature" -> "Rule(UnsupportedSyntax)"
      [] OTHER -> "InvalidMetricName"

\* the metric transform_simple builds from the rule that matched
SimpleMetric(eng, order, tag, value, rule, fm) ==
    [name |-> validate_metric_name(IF eng.lowercase_names
                                   THEN to_lowercase(apply_substitution(rule.name, fm.captures))
                                   ELSE apply_substitution(rule.name, fm.captures)),
     metric_type |-> rule.metric_type,
     help |-> rule.help,
     labels |-> validate_labels(IF eng.lowercase_labels
                                THEN LowercaseKeys(apply_labels(rule, fm.captures, order), order)
                                ELSE apply_labels(rule, fm.captures, order),
                                order),
     value |-> IF rule.value_factor.some THEN value * rule.value_factor.v ELSE value,
     timestamp |-> None,
     rule |-> fm.rule,
     resp |-> tag]

\* transform_simple once find_match has answered with fm
SimpleMatched(eng, acc, tag, value, flattened, fm) ==
    CASE fm.kind = "Err" ->
           [acc EXCEPT !.compiled = fm.compiled,
                       !.offered = Append(@, [resp |-> tag, path |-> flattened]),
                       !.err = Some(TransformErrorOf(fm.err))]
      [] fm.kind = "Some" ->
           [acc EXCEPT !.compiled = fm.compiled,
                       !.offered = Append(@, [resp |-> tag, path |-> flattened]),
                       !.metrics = Append(@, SimpleMetric(eng, acc.order, tag, value,
                                                          eng.rules[fm.rule], fm))]
      [] OTHER ->
           [acc EXCEPT !.compiled = fm.compiled,
                       !.offered = Append(@, [resp |-> tag, path |-> flattened])]

\* transform_simple on the flattened name of the leaf
SimpleFlattened(eng, acc, tag, value, flattened) ==
    SimpleMatched(eng, acc, tag, value, flattened,
                  find_match(eng.rules, acc.compiled, flattened))

\* tag: the index of the response the leaf belongs to
transform_simple(eng, acc, tag, mbean, attribute, value) ==
    SimpleFlattened(eng, acc, tag, value, flatten_mbean_name(mbean, attribute))

\* the loop of transform_composite over the entries, from entry i on
RECURSIVE CompositeLoop(_, _, _, _, _, _, _)
CompositeLoop(eng, acc, tag, mbean, attribute, entries, i) ==
    IF i > Len(entries) \/ acc.err.some THEN acc
    ELSE LET key == entries[i].k
             num == as_f64(entries[i].v)
         IN  IF num.some
             THEN LET full_attr == IF attribute.some
                                   THEN attribute.v \o <<"<">> \o key \o <<">">>
                                   ELSE key
                  IN  CompositeLoop(eng,
                                    transform_simple(eng, acc, tag, mbean,
                                                     Some(full_attr), num.v),
                                    tag, mbean, attribute, entries, i + 1)
             ELSE CompositeLoop(eng, acc, tag, mbean, attribute, entries, i + 1)

transform_composite(eng, acc, tag, mbean, attribute, composite) ==
    CompositeLoop(eng, acc, tag, mbean, attribute, IterOrder(composite, acc.order), 1)

\* one attribute value of a wildcard entry or of a multi-attribute response
TransformAttr(eng, acc, tag, mbean, attr_name, attr_value) ==
    CASE attr_value.t \in {"Integer", "Float"} ->
           transform_simple(eng, acc, tag, mbean, Some(attr_name), attr_value.n)
      [] attr_value.t = "Object" ->
           transform_composite(eng, acc, tag, mbean, Some(attr_name), attr_value.map)
      [] OTHER -> acc

\* the inner loop of transform_wildcard over one MBean's attributes
RECURSIVE WildcardAttrs(_, _, _, _, _, _)
WildcardAttrs(eng, acc, tag, mbean_name, attrs, i) ==
    IF i > Len(attrs) \/ acc.err.some THEN acc
    ELSE WildcardAttrs(eng,
                       TransformAttr(eng, acc, tag, mbean_name, attrs[i].k, attrs[i].v),
                       tag, mbean_name, attrs, i + 1)

RECURSIVE WildcardLoop(_, _, _, _, _)
WildcardLoop(eng, acc, tag, mbeans, i) ==
    IF i > Len(mbeans) \/ acc.err.some THEN acc
    ELSE WildcardLoop(eng,
                      WildcardAttrs(eng, acc, tag, mbeans[i].k,
                                    IterOrder(mbeans[i].v, acc.order), 1),
                      tag, mbeans, i + 1)

transform_wildcard(eng, acc, tag, wildcard) ==
    WildcardLoop(eng, acc, tag, IterOrder(wildcard, acc.order), 1)

\* the multiple-attributes branch of transform_response
RECURSIVE AttributesLoop(_, _, _, _, _, _, _)
AttributesLoop(eng, acc, tag, mbean, attributes, map, i) ==
    IF i > Len(attributes) \/ acc.err.some THEN acc
    ELSE LET attr_value == MapGet(map, attributes[i]) IN
         AttributesLoop(eng,
                        IF attr_value.some
                        THEN TransformAttr(eng, acc, tag, mbean, attributes[i], attr_value.v)
                        ELSE acc,
                        tag, mbean, attributes, map, i + 1)

\* the attribute names of the request: a string, or the strings of an array
extract_attributes(attribute) == attribute.names

transform_response(eng, acc, tag, response) ==
    LET attributes == extract_attributes(response.request.attribute)
        mbean == response.request.mbean
        value == response.value
    IN  CASE value.t = "Number" ->
               transform_simple(eng, acc, tag, mbean,
                                IF attributes = <<>> THEN None ELSE Some(attributes[1]),
                                value.n)
          [] value.t = "Composite" ->
               IF attributes = <<>>
               THEN transform_composite(eng, acc, tag, mbean, None, value.map)
               ELSE IF Len(attributes) = 1
               THEN transform_composite(eng, acc, tag, mbean, Some(attributes[1]), value.map)
               ELSE AttributesLoop(eng, acc, tag, mbean, attributes, value.map, 1)
          [] value.t = "Wildcard" -> transform_wildcard(eng, acc, tag, value.map)
          [] OTHER -> acc

\* transform without the status check
RECURSIVE TransformLoop_NoSkip(_, _, _, _)
TransformLoop_NoSkip(eng, acc, batch, i) ==
    IF i > Len(batch) \/ acc.err.some THEN acc
    ELSE TransformLoop_NoSkip(eng, transform_response(eng, acc, i, batch[i]), batch, i + 1)

\* the loop of transform over the responses, from response i on
RECURSIVE TransformLoop(_, _, _, _)
TransformLoop(eng, acc, batch, i) ==
    IF i > Len(batch) \/ acc.err.some THEN acc
    ELSE IF batch[i].status # 200
    THEN TransformLoop(eng, acc, batch, i + 1)
    ELSE TransformLoop(eng, transform_response(eng, acc, i, batch[i]), batch, i + 1)

\* TransformEngine::transform: Ok(metrics), or the first error; `produced`
\* is what the call had built when it ended
TransformResult(acc) ==
    [kind |-> IF acc.err.some THEN "Err" ELSE "Ok",
     err |-> acc.err,
     metrics |-> IF acc.err.some THEN <<>> ELSE acc.metrics,
     produced |-> acc.metrics,
     offered |-> acc.offered,
     compiled |-> acc.compiled]

transform(eng, comp, order, batch) ==
    TransformResult(TransformLoop(eng, StartAcc(comp, order), batch, 1))

-----------------------------------------------------------------------------
(* PrometheusFormatter (transformer/formatter.rs)                          *)

\* PrometheusFormatter::new().with_timestamps(include)
PrometheusFormatter(include) == [include_timestamp |-> include]

\* MetricType::as_str
MetricTypeStr(metric_type) ==
    CASE metric_type = "Gauge" -> <<"g", "a", "u", "g", "e">>
      [] metric_type = "Counter" -> <<"c", "o", "u", "n", "t", "e", "r">>
      [] metric_type = "Histogram" -> <<"h", "i", "s", "t", "o", "g", "r", "a", "m">>
      [] OTHER -> <<"u", "n", "t", "y", "p", "e", "d">>

\* the decimal digits of a natural number
RECURSIVE FormatNat(_)
FormatNat(n) ==
    IF n < 10 THEN <<CHOOSE d \in AsciiDigits : DigitValue(d) = n>>
    ELSE FormatNat(n \div 10) \o <<CHOOSE d \in AsciiDigits : DigitValue(d) = n % 10>>

\* format!("{}", n) of an i64
FormatI64(n) == IF n < 0 THEN <<"-">> \o FormatNat(0 - n) ELSE FormatNat(n)

\* format_value: the values of the model are whole numbers below 1e15, which
\* are written as integers
format_value(value) == FormatI64(value)

\* str::replace of single characters by the strings of `table`
RECURSIVE Escape(_, _)
Escape(str, table) ==
    IF str = <<>> THEN <<>>
    ELSE (IF \E e \in table : e.k = str[1]
          THEN (CHOOSE e \in table : e.k = str[1]).v
          ELSE <<str[1]>>) \o Escape(Tail(str), table)

escape_help(help) ==
    Escape(help, {[k |-> "\\", v |-> <<"\\", "\\">>], [k |-> "\n", v |-> <<"\\", "n">>]})

escape_label_value(value) ==
    Escape(value, {[k |-> "\\", v |-> <<"\\", "\\">>], [k |-> "\"", v |-> <<"\\", "\"">>],
                   [k |-> "\n", v |-> <<"\\", "n">>]})

\* label_pairs.join(",") over the labels sorted by key
RECURSIVE JoinLabelPairs(_, _)
JoinLabelPairs(sorted_labels, i) ==
    IF i > Len(sorted_labels) THEN <<>>
    ELSE (IF i > 1 THEN <<",">> ELSE <<>>)
         \o sorted_labels[i].k \o <<"=", "\"">> \o escape_label_value(sorted_labels[i].v)
         \o <<"\"">> \o JoinLabelPairs(sorted_labels, i + 1)

format_metric_line(fmt, metric) ==
    metric.name
    \o (IF metric.labels # {}
        THEN <<"{">> \o JoinLabelPairs(SortByKey(metric.labels), 1) \o <<"}">>
        ELSE <<>>)
    \o <<" ">> \o format_value(metric.value)
    \o (IF fmt.include_timestamp /\ metric.timestamp.some
        THEN <<" ">> \o FormatI64(metric.timestamp.v)
        ELSE <<>>)

\* group_by_name without the grouping: every metric is a group of its own
RECURSIVE GroupLoop_NoGrouping(_, _, _, _)
GroupLoop_NoGrouping(metrics, i, order, groups) ==
    IF i > Len(metrics) THEN [order |-> order, groups |-> groups]
    ELSE GroupLoop_NoGrouping(metrics, i + 1,
                   Append(order, <<FormatNat(i), metrics[i].name>>),
                   MapInsert(groups, <<FormatNat(i), metrics[i].name>>, <<metrics[i]>>))

\* the loop of group_by_name over the metrics, from metric i on
RECURSIVE GroupLoop(_, _, _, _)
GroupLoop(metrics, i, order, groups) ==
    IF i > Len(metrics) THEN [order |-> order, groups |-> groups]
    ELSE GroupLoop(metrics, i + 1,
                   IF metrics[i].name \in MapKeys(groups) THEN order
                   ELSE Append(order, metrics[i].name),
                   MapInsert(groups, metrics[i].name,
                             Append(OptSeq(MapGet(groups, metrics[i].name)), metrics[i])))

\* order.into_iter().filter_map(|name| groups.remove(&name).map(|g| (name, g)))
GroupsInOrder(g) ==
    [k \in 1..Len(g.order) |-> [key |-> g.order[k], group |-> MapGet(g.groups, g.order[k]).v]]

group_by_name(metrics) == GroupsInOrder(GroupLoop(metrics, 1, <<>>, {}))

\* the metric lines of one group, from metric i on
RECURSIVE MetricLines(_, _, _)
MetricLines(fmt, group, i) ==
    IF i > Len(group) THEN <<>>
    ELSE format_metric_line(fmt, group[i]) \o <<"\n">> \o MetricLines(fmt, group, i + 1)

\* the HELP and TYPE lines of a group
GroupHeader(first) ==
    (IF first.help.some
     THEN <<"#", " ", "H", "E", "L", "P", " ">> \o first.name \o <<" ">>
          \o escape_help(first.help.v) \o <<"\n">>
     ELSE <<>>)
    \o <<"#", " ", "T", "Y", "P", "E", " ">> \o first.name \o <<" ">>
    \o MetricTypeStr(first.metric_type) \o <<"\n">>

\* the loop of format over the groups, from group i on
RECURSIVE FormatLoop(_, _, _, _, _)
FormatLoop(fmt, grouped, i, seen_metrics, output) ==
    IF i > Len(grouped) THEN output
    ELSE FormatLoop(fmt, grouped, i + 1, seen_metrics \cup {grouped[i].group[1].name},
                    output
                    \o (IF grouped[i].group[1].name \notin seen_metrics
                        THEN GroupHeader(grouped[i].group[1])
                        ELSE <<>>)
                    \o MetricLines(fmt, grouped[i].group, 1))

\* PrometheusFormatter::format
format(fmt, metrics) ==
    IF metrics = <<>> THEN <<>>
    ELSE FormatLoop(fmt, group_by_name(metrics), 1, {}, <<>>)

-----------------------------------------------------------------------------
(* The Jolokia client (collector/client.rs, collector/parser.rs, error.rs) *)

\* CollectorError
CollectorError(kind, code, message) == [kind |-> kind, code |-> code, message |-> message]
ErrHttpRequest == CollectorError("HttpRequest", 0, <<>>)
ErrHttpResponse == CollectorError("HttpResponse", 0, <<>>)
ErrHttpStatus(code) == CollectorError("HttpStatus", code, <<>>)
ErrJsonParse == CollectorError("JsonParse", 0, <<>>)
ErrJolokiaError(status, message) == CollectorError("JolokiaError", status, message)
ErrTimeout == CollectorError("Timeout", 0, <<>>)
ErrConnectionFailed == CollectorError("ConnectionFailed", 0, <<>>)
ErrMaxRetriesExceeded == CollectorError("MaxRetriesExceeded", 0, <<>>)

\* CollectorError::is_retryable
is_retryable(e) ==
    \/ e.kind \in {"HttpRequest", "HttpResponse", "Timeout", "ConnectionFailed"}
    \/ (e.kind = "HttpStatus" /\ e.code >= 500 /\ e.code <= 599)

\* JolokiaClient::is_jolokia_status_retryable
is_jolokia_status_retryable(status) == status >= 500 /\ status < 600

\* What the endpoint does with one POST:
\*   send_error   the request never completes (refused, reset, timed out)
\*   http         an HTTP response with a status code and a body; the body
\*                may fail to arrive, not be JSON, or be a Jolokia document
XSendError == [ev |-> "send_error", code |-> 0, body |-> [kind |-> "none"]]
XHttp(code) == [ev |-> "http", code |-> code, body |-> [kind |-> "none"]]
XBodyError == [ev |-> "http", code |-> 200, body |-> [kind |-> "read_error"]]
XNotJson == [ev |-> "http", code |-> 200, body |-> [kind |-> "text"]]
XJolokia(status, value, error) ==
    [ev |-> "http", code |-> 200,
     body |-> [kind |-> "json", status |-> status, value |-> value, error |-> error]]

\* convert_raw_response: an error document carries no value
convert_raw_response(mbean, attribute, raw) ==
    IF raw.status # 200
    THEN Response(mbean, attribute, raw.status, ValNull, raw.error)
    ELSE Response(mbean, attribute, raw.status,
                  IF raw.value.some THEN raw.value.v ELSE ValNull, raw.error)

\* parse_response
parse_response(mbean, attribute, body) ==
    IF body.kind # "json" THEN [ok |-> FALSE, error |-> ErrJsonParse]
    ELSE [ok |-> TRUE, response |-> convert_raw_response(mbean, attribute, body)]

\* StatusCode::is_success
is_success(code) == code >= 200 /\ code < 300

\* JolokiaClient::read_mbean, given what the endpoint does with the request
read_mbean(mbean, attribute, x) ==
    IF x.ev = "send_error" THEN [ok |-> FALSE, error |-> ErrHttpRequest]
    ELSE IF ~is_success(x.code) THEN [ok |-> FALSE, error |-> ErrHttpStatus(x.code)]
    ELSE IF x.body.kind = "read_error" THEN [ok |-> FALSE, error |-> ErrHttpResponse]
    ELSE parse_response(mbean, attribute, x.body)

\* f64 multipliers: NaN, the infinities, zero, negatives, ordinary positive
\* ratios, and positive finite values so large that the product with any
\* non-zero delay exceeds Duration::MAX
MulNaN == [kind |-> "nan", num |-> 0, den |-> 1]
MulInf == [kind |-> "inf", num |-> 0, den |-> 1]
MulZero == [kind |-> "ratio", num |-> 0, den |-> 1]
MulRatio(num, den) == [kind |-> "ratio", num |-> num, den |-> den]
MulHuge == [kind |-> "huge", num |-> 0, den |-> 1]

is_finite(m) == m.kind \in {"ratio", "huge"}
IsPositive(m) == m.kind \in {"inf", "huge"} \/ (m.kind = "ratio" /\ m.num > 0)

\* Duration::from_secs_f64(delay.as_secs_f64() * m) for a finite positive m:
\* the product, or a panic when it does not fit a Duration
ScaleDelay(delay, m) ==
    IF m.kind = "huge"
    THEN IF delay = 0 THEN [ok |-> TRUE, d |-> 0] ELSE [ok |-> FALSE, d |-> 0]
    ELSE [ok |-> TRUE, d |-> (delay * m.num) \div m.den]

Min(a, b) == IF a <= b THEN a ELSE b

\* RetryConfig; durations in milliseconds
RetryConfig(max_retries, initial_delay, max_delay, multiplier) ==
    [max_retries |-> max_retries, initial_delay |-> initial_delay,
     max_delay |-> max_delay, multiplier |-> multiplier]

\* impl Default for RetryConfig
RetryConfigDefault == RetryConfig(3, 100, 2000, MulRatio(2, 1))

UnknownJolokiaError == <<"Unknown Jolokia error">>

\* the locals of read_mbean_with_retry before the first iteration
RetryStart(config) ==
    [pc |-> "loop", attempt |-> 0, delay |-> config.initial_delay, last_error |-> None,
     result |-> NoReturn, slept |-> None]

\* The tail of one iteration of the retry loop, after a retryable failure
\* was stored in last_error: sleep and scale the delay if retries remain
RetryBackoff(config, st, e) ==
    IF st.attempt < config.max_retries
    THEN LET safe_multiplier == IF is_finite(config.multiplier) /\ IsPositive(config.multiplier)
                                THEN config.multiplier
                                ELSE MulRatio(2, 1)
             scaled == ScaleDelay(st.delay, safe_multiplier)
         IN  IF scaled.ok
             THEN [st EXCEPT !.attempt = @ + 1, !.last_error = Some(e),
                             !.slept = Some(st.delay),
                             !.delay = Min(scaled.d, config.max_delay)]
             ELSE [st EXCEPT !.pc = "panicked", !.last_error = Some(e),
                             !.slept = Some(st.delay)]
    ELSE [st EXCEPT !.attempt = @ + 1, !.last_error = Some(e), !.slept = None]

\* a retry loop that keeps the first retryable failure instead of the last
RetryIteration_FirstError(config, st, out) ==
    IF out.ok
    THEN IF out.response.status = 200
         THEN [st EXCEPT !.pc = "done", !.result = out, !.slept = None]
         ELSE IF is_jolokia_status_retryable(out.response.status)
         THEN RetryBackoff(config, st,
                  IF st.last_error.some THEN st.last_error.v
                  ELSE ErrJolokiaError(out.response.status,
                                       IF out.response.error.some THEN out.response.error.v
                                       ELSE UnknownJolokiaError))
         ELSE [st EXCEPT !.pc = "done", !.result = out, !.slept = None]
    ELSE IF ~is_retryable(out.error)
         THEN [st EXCEPT !.pc = "done", !.result = [ok |-> FALSE, error |-> out.error],
                         !.slept = None]
         ELSE RetryBackoff(config, st,
                           IF st.last_error.some THEN st.last_error.v ELSE out.error)

\* One iteration of the loop of read_mbean_with_retry, given the outcome of
\* its read_mbean call
RetryIteration(config, st, out) ==
    IF out.ok
    THEN IF out.response.status = 200
         THEN [st EXCEPT !.pc = "done", !.result = out, !.slept = None]
         ELSE IF is_jolokia_status_retryable(out.response.status)
         THEN RetryBackoff(config, st,
                  ErrJolokiaError(out.response.status,
                                  IF out.response.error.some THEN out.response.error.v
                                  ELSE UnknownJolokiaError))
         ELSE [st EXCEPT !.pc = "done", !.result = out, !.slept = None]
    ELSE IF ~is_retryable(out.error)
         THEN [st EXCEPT !.pc = "done", !.result = [ok |-> FALSE, error |-> out.error],
                         !.slept = None]
         ELSE RetryBackoff(config, st, out.error)

\* after the loop: Err(last_error.unwrap_or(MaxRetriesExceeded))
RetryExhaust(st) ==
    [st EXCEPT !.pc = "done",
               !.result = [ok |-> FALSE,
                           error |-> IF st.last_error.some THEN st.last_error.v
                                     ELSE ErrMaxRetriesExceeded],
               !.slept = None]

\* collect_with_fallback that gives up at the first failed read
CollectIteration_StopOnError(st, mbean, out) ==
    IF out.ok /\ out.response.status = 200
    THEN [st EXCEPT !.results = Append(@, [mbean |-> mbean, result |-> out])]
    ELSE [st EXCEPT !.pc = "done"]

\* One iteration of the loop of collect_with_fallback, given the outcome of
\* its read_mbean call: the entry is pushed whatever the outcome
CollectIteration(st, mbean, out) ==
    [st EXCEPT !.results = Append(@, [mbean |-> mbean, result |-> out])]

-----------------------------------------------------------------------------
(* The /metrics handler (server/handlers.rs) and the registry (metrics.rs) *)

\* str::contains
Contains(str, sub) ==
    \E i \in 1..(Len(str) - Len(sub) + 1) : SubSeq(str, i, i + Len(sub) - 1) = sub

\* the counter of a pattern in the rule map of the registry
RuleMatchesTotal(reg, pattern) ==
    IF pattern \in MapKeys(reg.rule_matches) THEN MapGet(reg.rule_matches, pattern).v ELSE 0

\* InternalMetrics::record_rule_match
record_rule_match(reg, pattern) ==
    [reg EXCEPT !.rule_matches = MapInsert(@, pattern, RuleMatchesTotal(reg, pattern) + 1)]

\* InternalMetrics::record_scrape_success
record_scrape_success(reg) == [reg EXCEPT !.scrape_success_total = @ + 1]

\* InternalMetrics::record_scrape_failure
record_scrape_failure(reg) == [reg EXCEPT !.scrape_failure_total = @ + 1]

\* the match on the result of one read_mbean in the handler's loop
\* reads: the outcome of every read_mbean call of the scrape (0: Err)
ScrapeRead(acc, mbean, out) ==
    IF out.ok
    THEN IF out.response.status = 200
         THEN [acc EXCEPT !.all_responses = Append(@, out.response),
                          !.reads = Append(@, 200)]
         ELSE [acc EXCEPT !.errors = Append(@, [mbean |-> mbean, what |-> "status"]),
                          !.reads = Append(@, out.response.status)]
    ELSE [acc EXCEPT !.errors = Append(@, [mbean |-> mbean, what |-> out.error.kind]),
                     !.reads = Append(@, 0)]

\* the loop of the handler over the MBeans to collect, from MBean i on;
\* xs[i]: what the endpoint does with the read of MBean i
RECURSIVE ScrapeCollect(_, _, _, _, _)
ScrapeCollect(mbeans, blacklist, xs, i, acc) ==
    IF i > Len(mbeans) THEN acc
    ELSE IF \E b \in blacklist : Contains(mbeans[i], b)
    THEN ScrapeCollect(mbeans, blacklist, xs, i + 1, acc)
    ELSE ScrapeCollect(mbeans, blacklist, xs, i + 1,
                       ScrapeRead(acc, mbeans[i], read_mbean(mbeans[i], AttrAbsent, xs[i])))

\* the loop of the handler that records the rule matches, from rule i on
RECURSIVE RecordRuleMatches(_, _, _, _)
RecordRuleMatches(reg, rs, comp, i) ==
    IF i > Len(rs) THEN reg
    ELSE RecordRuleMatches(IF i \in comp THEN record_rule_match(reg, rs[i].pattern) ELSE reg,
                           rs, comp, i + 1)

\* the match on the result of engine.transform with an Err arm that records nothing
ServeTransform_DropError(tr, errors) ==
    IF tr.kind = "Ok"
    THEN [metrics |-> tr.metrics, errors |-> errors]
    ELSE [metrics |-> <<>>, errors |-> errors]

\* the match on the result of engine.transform: the metrics to serve and the errors
ServeTransform(tr, errors) ==
    IF tr.kind = "Ok"
    THEN [metrics |-> tr.metrics, errors |-> errors]
    ELSE [metrics |-> <<>>, errors |-> Append(errors, [mbean |-> <<>>, what |-> "transform"])]

\* the end of the handler: the scrape served and the registry after it
MetricsServed(scrapes, collected, tr, served, reg1) ==
    [sc |-> [pc |-> "served", all_responses |-> collected.all_responses,
             errors |-> served.errors, metrics |-> served.metrics,
             reads |-> collected.reads, scrape_errors |-> Len(served.errors),
             transform |-> tr, compiled |-> tr.compiled, scrapes |-> scrapes + 1],
     registry |-> IF served.errors = <<>> THEN record_scrape_success(reg1)
                  ELSE record_scrape_failure(reg1)]

\* the handler once engine.transform has returned tr
MetricsTransformed(eng, reg, scrapes, collected, tr) ==
    MetricsServed(scrapes, collected, tr, ServeTransform(tr, collected.errors),
                  IF tr.kind = "Ok" THEN RecordRuleMatches(reg, eng.rules, tr.compiled, 1)
                  ELSE reg)

\* the handler once the MBeans are collected
MetricsCollected(eng, comp, order, reg, scrapes, collected) ==
    MetricsTransformed(eng, reg, scrapes, collected,
                       transform(eng, comp, order, collected.all_responses))

\* handlers::metrics: one scrape, given the MBeans to collect and what the
\* endpoint does with each read
metrics(eng, comp, order, mbeans_to_collect, blacklist, xs, reg, scrapes) ==
    MetricsCollected(eng, comp, order, reg, scrapes,
                     ScrapeCollect(mbeans_to_collect, blacklist, xs, 1,
                                   [all_responses |-> <<>>, errors |-> <<>>, reads |-> <<>>]))

-----------------------------------------------------------------------------
(* Rule.compiled_pattern: once_cell::sync::OnceCell<Regex>.  The cell is   *)
(* "incomplete" (empty), "running" (one caller runs the initialising       *)
(* closure, the others wait) or "complete" (set).                          *)

NoRule == Rule(<<>>, <<>>, "Untyped", {}, None, None)

\* OnceCell::new, as the field of the rule that owns it
OnceCellNew(rule) == [rule |-> rule, state |-> "incomplete", value |-> None]

\* whether a caller that finds the cell in this state becomes the initialiser
CanInitialize_NoLock(state) == state # "complete"
CanInitialize(state) == state = "incomplete"

\* the closure of Rule::compile: convert_java_regex, then Regex::new
CompileClosure(rule) == RuleCompile(rule, FALSE)

-----------------------------------------------------------------------------
(* Counter (metrics.rs): an AtomicU64.  A u64 is four 16-bit limbs, least  *)
(* significant first.                                                      *)

LimbBase == 65536

U64(l0, l1, l2, l3) == <<l0, l1, l2, l3>>
U64_ZERO == U64(0, 0, 0, 0)
U64_ONE == U64(1, 0, 0, 0)
U64_MAX == U64(65535, 65535, 65535, 65535)

\* the carry out of limb i of a + b
RECURSIVE Carry(_, _, _)
Carry(a, b, i) ==
    IF i = 0 THEN 0 ELSE (a[i] + b[i] + Carry(a, b, i - 1)) \div LimbBase

\* u64::wrapping_add, which AtomicU64::fetch_add performs
WrappingAdd(a, b) == [i \in 1..4 |-> (a[i] + b[i] + Carry(a, b, i - 1)) % LimbBase]

\* a < b as u64, comparing from limb i down
RECURSIVE LessFrom(_, _, _)
LessFrom(a, b, i) ==
    IF i = 0 THEN FALSE
    ELSE IF a[i] # b[i] THEN a[i] < b[i]
    ELSE LessFrom(a, b, i - 1)
LessU64(a, b) == LessFrom(a, b, 4)

\* Counter::new
CounterNew == U64_ZERO
\* Counter::inc
CounterInc(value) == WrappingAdd(value, U64_ONE)
\* Counter::inc_by
CounterIncBy(value, n) == WrappingAdd(value, n)
\* Counter::get
CounterGet(value) == value
\* Counter::reset
CounterReset(value) == U64_ZERO

-----------------------------------------------------------------------------
(* The inputs of the model                                                 *)

MaxRules == 3

ConfigRule(pattern, name, type, labels, help, value_factor) ==
    [pattern |-> pattern, name |-> name, type |-> type, labels |-> labels,
     help |-> help, value_factor |-> value_factor]

T_gauge == <<"g", "a", "u", "g", "e">>
T_Gauge == <<"G", "a", "u", "g", "e">>
T_counter == <<"c", "o", "u", "n", "t", "e", "r">>
T_untyped == <<"u", "n", "t", "y", "p", "e", "d">>

\* pattern <H><(\w+)>   name h_$1   labels {a: "$1"}
CR_heap == ConfigRule(<<"<", "H", ">", "<", "(", "\\", "w", "+", ")", ">">>,
                      <<"h", "_", "$", "1">>, T_gauge,
                      {[k |-> <<"a">>, v |-> <<"$", "1">>]}, None, None)
\* pattern <(\w+)>   name m_$1
CR_attr == ConfigRule(<<"<", "(", "\\", "w", "+", ")", ">">>,
                      <<"m", "_", "$", "1">>, T_counter, {}, None, None)
\* pattern .*   name x
CR_all == ConfigRule(<<".", "*">>, <<"x">>, T_untyped, {}, None, None)
\* pattern (j   an unclosed group: Regex::new fails
CR_unclosed == ConfigRule(<<"(", "j">>, <<"b">>, T_gauge, {}, None, None)
\* pattern (?=j)   a lookahead: convert_java_regex rejects it
CR_lookahead == ConfigRule(<<"(", "?", "=", "j", ")">>, <<"l">>, T_gauge, {}, None, None)
\* pattern zz   matches no path of the model
CR_nomatch == ConfigRule(<<"z", "z">>, <<"z">>, T_Gauge, {}, None, None)

\* pattern (z*)   name $1   label $1 -> v: the capture is empty on every path
ER_empty == ConfigRule(<<"(", "z", "*", ")">>, <<"$", "1">>, T_gauge,
                       {[k |-> <<"$", "1">>, v |-> <<"v">>]}, None, None)
\* pattern <T>   name 7-T   labels 7-k -> v, K.k -> $0   value_factor 2
ER_T == ConfigRule(<<"<", "T", ">">>, <<"7", "-", "T">>, T_counter,
                   {[k |-> <<"7", "-", "k">>, v |-> <<"v">>],
                    [k |-> <<"K", ".", "k">>, v |-> <<"$", "0">>]},
                   Some(<<"h">>), Some(2))

EngineRulePool == {CR_attr, CR_all, ER_empty, ER_T, CR_unclosed}

MatchRulePool == {CR_heap, CR_attr, CR_all, CR_unclosed, CR_lookahead, CR_nomatch}

SeqsUpTo(S, n) == UNION {[1..k -> S] : k \in 0..n}
\* the elements of a list at the indices I, in list order
Pick(list, I) ==
    [k \in 1..Cardinality(I) |->
        list[CHOOSE i \in I : Cardinality({j \in I : j < i}) = k - 1]]
\* the subsequences of at most n elements
SubSeqsUpTo(list, n) ==
    {Pick(list, I) : I \in {J \in SUBSET (1..Len(list)) : Cardinality(J) <= n}}

MB_Memory == <<"j", ":", "t", "=", "M">>
MB_Collector == <<"j", ":", "t", "=", "G", ",", "n", "=", "Y">>
MB_Unparsable == <<"q">>
\* j:n="a,b"   a quoted property value that holds a comma
MB_Quoted == <<"j", ":", "n", "=", "\"", "a", ",", "b", "\"">>

\* attribute and key names
A_T == <<"T">>
A_H == <<"H">>
A_C == <<"C">>
A_S == <<"S">>
A_E == <<"e'">>
K_u == <<"u">>

Entry(k, v) == [k |-> k, v |-> v]

\* a read of j:t=M without an attribute: every attribute of the MBean
R_mem == Response(MB_Memory, AttrAbsent, 200,
                  ValComposite({Entry(A_T, AttrInteger(5)), Entry(A_E, AttrInteger(1)),
                                Entry(A_S, AttrString(<<"G">>)),
                                Entry(A_H, AttrObject({Entry(K_u, AttrInteger(2))}))}),
                  None)
\* a read of one numeric attribute
R_gc == Response(MB_Collector, AttrSingle(A_C), 200, ValNumber(7), None)
\* a read of one composite attribute
R_heap == Response(MB_Memory, AttrSingle(A_H), 200,
                   ValComposite({Entry(K_u, AttrInteger(2)), Entry(A_S, AttrString(<<"3">>))}),
                   None)
\* a read of two attributes
R_multi == Response(MB_Memory, AttrMany(<<A_T, A_H, A_C>>), 200,
                    ValComposite({Entry(A_T, AttrFloat(5)),
                                  Entry(A_H, AttrObject({Entry(K_u, AttrInteger(2))}))}),
                    None)
\* a pattern read
R_wild == Response(<<"j", ":", "*">>, AttrAbsent, 200,
                   ValWildcard({Entry(MB_Collector, {Entry(A_C, AttrInteger(7)),
                                                     Entry(A_S, AttrBoolean)}),
                                Entry(MB_Memory, {Entry(A_H, AttrObject({Entry(K_u, AttrInteger(2))}))})}),
                   None)
\* a read of one composite attribute of j:n="a,b"
R_quoted == Response(MB_Quoted, AttrSingle(A_H), 200,
                     ValComposite({Entry(K_u, AttrInteger(2))}), None)
\* an error response that carries a value, as a caller may build one
R_404v == Response(MB_Collector, AttrSingle(A_C), 404, ValNumber(7), Some(<<"n">>))

ResponseList == <<R_404v, R_mem, R_heap, R_gc, R_multi, R_wild, R_quoted>>

\* lowercase_names, lowercase_labels and the iteration order of the maps
EngineSettings == {<<FALSE, FALSE, "asc">>, <<TRUE, TRUE, "desc">>}

MaxEngineRules == 2
MaxResponses == 2

\* the batches a caller hands to transform
Batches == SubSeqsUpTo(ResponseList, MaxResponses)

MatchPaths ==
    {flatten_mbean_name(MB_Memory, None),
     flatten_mbean_name(MB_Memory, Some(<<"H">>)),
     flatten_mbean_name(MB_Memory, Some(<<"H", "<", "u", ">">>)),
     flatten_mbean_name(MB_Collector, Some(<<"C">>)),
     flatten_mbean_name(MB_Unparsable, None)}

-----------------------------------------------------------------------------
(* RuleSet::find_match on its own                                          *)

NoResult == [kind |-> "Unset"]

\* the formatter is not part of this run
FormatIdle ==
    /\ formatter = PrometheusFormatter(FALSE)
    /\ fmt_metrics = <<>>
    /\ fmt_output = <<>>
    /\ fmt_pc = "idle"

\* validate_metric_name is not called on its own in this run
NameIdle ==
    /\ name_input = <<>>
    /\ name_output = <<>>
    /\ name_pc = "idle"

\* apply_substitution is not called on its own in this run
SubstIdle ==
    /\ sub_template = <<>>
    /\ sub_captures = NoMatch
    /\ sub_output = <<>>
    /\ sub_pc = "idle"

\* the target label is not part of this run
UrlIdle ==
    /\ jolokia_url = <<>>
    /\ target_name = None

\* no Counter is part of this run
CounterIdle ==
    /\ counter = CounterNew
    /\ counter_got = None
    /\ counter_ops = 0

\* no rule is compiled concurrently in this run
OnceIdle ==
    /\ cell = OnceCellNew(NoRule)
    /\ tasks = <<>>
    /\ compile_runs = <<>>

\* a component that is not part of this run
Unused == [pc |-> "unused"]

ConversionIdle == conversion = Unused
GaugeIdle == gauge = Unused
HistogramIdle == histogram = Unused
InternalIdle == internal = Unused
JavaRegexIdle == java_regex = Unused
TypingIdle == typing = Unused

UnitIdle ==
    ConversionIdle /\ GaugeIdle /\ HistogramIdle /\ InternalIdle /\ JavaRegexIdle /\ TypingIdle

LibIdle == FormatIdle /\ NameIdle /\ SubstIdle /\ UrlIdle /\ CounterIdle /\ OnceIdle /\ UnitIdle

\* the engine is not part of this run
EngineIdle ==
    /\ lowercase_names = FALSE
    /\ lowercase_labels = FALSE
    /\ hash_order = "asc"
    /\ responses = <<>>
    /\ tr_result = NoResult
    /\ tr_pc = "idle"

\* read_mbean_with_retry is not part of this run
RetryIdle ==
    /\ retry_config = RetryConfigDefault
    /\ rt = [pc |-> "idle", attempt |-> 0, delay |-> 0, last_error |-> None,
             result |-> NoReturn, slept |-> None]
    /\ rt_reads = <<>>
    /\ rt_sleeps = <<>>

\* collect_with_fallback is not part of this run
CollectIdle ==
    /\ cf_mbeans = <<>>
    /\ cf_results = <<>>
    /\ cf_calls = <<>>
    /\ cf_pc = "idle"

\* an empty InternalMetrics
RegistryNew == [scrape_success_total |-> 0, scrape_failure_total |-> 0, rule_matches |-> {}]

\* no scrape has been served
NoScrape ==
    [pc |-> "idle", all_responses |-> <<>>, errors |-> <<>>, metrics |-> <<>>,
     reads |-> <<>>, scrape_errors |-> 0,
     transform |-> NoResult, compiled |-> {}, scrapes |-> 0]

\* the /metrics handler is not part of this run
ScrapeIdle ==
    /\ whitelist_object_names = <<>>
    /\ blacklist_object_names = {}
    /\ sc = NoScrape
    /\ registry = RegistryNew

InitMatch ==
    /\ LibIdle
    /\ ScrapeIdle
    /\ EngineIdle
    /\ RetryIdle
    /\ CollectIdle
    /\ config_rules \in SeqsUpTo(MatchRulePool, MaxRules)
    /\ rules = config_to_ruleset(config_rules)
    /\ compiled = {}
    /\ fm_input \in MatchPaths
    /\ fm_result = NoResult
    /\ fm_pc = "ready"

\* rules.find_match(input)
FindMatchCall ==
    /\ fm_pc = "ready"
    /\ fm_result' = find_match(rules, compiled, fm_input)
    /\ compiled' = fm_result'.compiled
    /\ fm_pc' = "done"
    /\ UNCHANGED <<config_rules, rules, fm_input>>
    /\ UNCHANGED <<engineVars, retryVars, collectVars, scrapeVars>>
    /\ UNCHANGED libVars

\* the caller moves on to the next path
NextPath ==
    /\ fm_pc = "done"
    /\ \E p \in MatchPaths : fm_input' = p
    /\ fm_result' = NoResult
    /\ fm_pc' = "ready"
    /\ UNCHANGED <<config_rules, rules, compiled>>
    /\ UNCHANGED <<engineVars, retryVars, collectVars, scrapeVars>>
    /\ UNCHANGED libVars

NextMatch == FindMatchCall \/ NextPath

SpecMatch == InitMatch /\ [][NextMatch]_vars

\* the rules, by declaration index, whose pattern compiles and matches the input
Compiles(r) == LET c == convert_java_regex(r.pattern) IN c.ok /\ RegexNew(c.s).ok
PatternMatches(r, input) ==
    Compiles(r) /\ RegexCaptures(RegexNew(convert_java_regex(r.pattern).s), input).ok
MatchingRules == {i \in 1..Len(config_rules) : PatternMatches(config_rules[i], fm_input)}
FailingRules == {i \in 1..Len(config_rules) : ~Compiles(config_rules[i])}
Least(S) == CHOOSE i \in S : \A j \in S : i <= j

\* C1 as stated: find_match returns the match of the lowest-index rule (in
\* declaration order) whose pattern matches the path, evaluates no rule after
\* it, and returns None only when no rule matches.
C1_LowestMatchingRuleWins ==
    fm_pc = "done" =>
        /\ MatchingRules # {} =>
              /\ fm_result.kind = "Some"
              /\ fm_result.rule = Least(MatchingRules)
              /\ \A k \in 1..Len(fm_result.evaluated) :
                     fm_result.evaluated[k] <= Least(MatchingRules)
        /\ fm_result.kind = "None" => MatchingRules = {}

\* C1 amended: the first rule, in declaration order, that matches the path or
\* fails to compile decides the call.  If it matches, its match is returned
\* (with that rule's captures of the path); if it fails to compile, its error
\* is returned.  Exactly the rules up to it are evaluated, in order, and None
\* is returned only when every rule compiles and none matches.
C1_FirstDecidingRuleWins ==
    fm_pc = "done" =>
        LET deciding == MatchingRules \cup FailingRules IN
        IF deciding = {}
        THEN /\ fm_result.kind = "None"
             /\ fm_result.evaluated = [k \in 1..Len(config_rules) |-> k]
        ELSE LET w == Least(deciding) IN
             /\ fm_result.rule = w
             /\ fm_result.evaluated = [k \in 1..w |-> k]
             /\ IF w \in FailingRules
                THEN fm_result.kind = "Err"
                ELSE /\ fm_result.kind = "Some"
                     /\ fm_result.captures =
                            RegexCaptures(RegexNew(convert_java_regex(config_rules[w].pattern).s),
                                          fm_input)

\* a call won by a rule that is neither the first nor the last matching one's only choice
C1_Witness ==
    /\ fm_pc = "done"
    /\ fm_result.kind = "Some"
    /\ fm_result.rule > 1
    /\ \E j \in MatchingRules : j > fm_result.rule

-----------------------------------------------------------------------------
(* TransformEngine::transform on a batch of responses                      *)

MatchIdle ==
    /\ fm_input = <<>>
    /\ fm_result = NoResult
    /\ fm_pc = "idle"

\* The engine is built from a configuration.  The server compiles every rule
\* first (compile_all) and refuses to start when one fails; a library caller
\* may hand the engine rules that were never compiled.
InitEngine ==
    /\ LibIdle
    /\ ScrapeIdle
    /\ MatchIdle
    /\ RetryIdle
    /\ CollectIdle
    /\ config_rules \in SeqsUpTo(EngineRulePool, MaxEngineRules)
    /\ rules = config_to_ruleset(config_rules)
    /\ compiled \in {{}} \cup (IF compile_all(rules).ok THEN {compile_all(rules).compiled} ELSE {})
    /\ \E e \in EngineSettings :
          lowercase_names = e[1] /\ lowercase_labels = e[2] /\ hash_order = e[3]
    /\ responses \in Batches
    /\ tr_result = NoResult
    /\ tr_pc = "ready"

TheEngine == Engine(rules, lowercase_names, lowercase_labels)

\* engine.transform(&responses)
TransformCall ==
    /\ tr_pc = "ready"
    /\ tr_result' = transform(TheEngine, compiled, hash_order, responses)
    /\ compiled' = tr_result'.compiled
    /\ tr_pc' = "done"
    /\ UNCHANGED <<config_rules, rules, lowercase_names, lowercase_labels, hash_order, responses>>
    /\ UNCHANGED <<fm_input, fm_result, fm_pc>>
    /\ UNCHANGED <<retryVars, collectVars, scrapeVars>>
    /\ UNCHANGED libVars

\* the caller hands the engine the next batch
NextBatch ==
    /\ tr_pc = "done"
    /\ \E b \in Batches : responses' = b
    /\ tr_result' = NoResult
    /\ tr_pc' = "ready"
    /\ UNCHANGED <<config_rules, rules, compiled, lowercase_names, lowercase_labels, hash_order>>
    /\ UNCHANGED <<fm_input, fm_result, fm_pc>>
    /\ UNCHANGED <<retryVars, collectVars, scrapeVars>>
    /\ UNCHANGED libVars

NextEngine == TransformCall \/ NextBatch

SpecEngine == InitEngine /\ [][NextEngine]_vars

\* C2: every metric returned by transform has a name matching
\* [A-Za-z_:][A-Za-z0-9_:]* and only label keys matching [A-Za-z_][A-Za-z0-9_]*,
\* whatever the rules, the responses and the captured text.
C2_NamesAndLabelKeysValid ==
    (tr_pc = "done" /\ tr_result.kind = "Ok") =>
        \A i \in 1..Len(tr_result.metrics) :
            /\ IsValidMetricName(tr_result.metrics[i].name)
            /\ \A e \in tr_result.metrics[i].labels : IsValidLabelName(e.k)

\* a call that returned a metric with an empty name and an empty label key
C2_EmptyNameReturned ==
    /\ tr_pc = "done"
    /\ tr_result.kind = "Ok"
    /\ \E i \in 1..Len(tr_result.metrics) :
           /\ tr_result.metrics[i].name = <<>>
           /\ \E e \in tr_result.metrics[i].labels : e.k = <<>>

IsOk200(r) == r.status = 200
\* a metric, and an offered path, without the index of its response
Untagged(ms) == [i \in 1..Len(ms) |-> [name |-> ms[i].name, metric_type |-> ms[i].metric_type,
                                        help |-> ms[i].help, labels |-> ms[i].labels,
                                        value |-> ms[i].value, rule |-> ms[i].rule]]
PathsOf(offered) == [i \in 1..Len(offered) |-> offered[i].path]

\* C9: transform hands no leaf of a response with status # 200 to rule
\* matching and emits no metric from it; the call on a batch mixing 200 and
\* non-200 responses does exactly what the call on its 200 responses alone
\* does (same outcome, same paths offered to the rules in the same order,
\* same metrics), and a call that succeeds has offered the value of every
\* numeric 200 response.
C9_ErrorResponsesSkipped ==
    [][TransformCall =>
        \A r \in {tr_result'} :
        \A only200 \in {transform(TheEngine, compiled, hash_order, SelectSeq(responses, IsOk200))} :
            /\ \A k \in 1..Len(r.offered) : responses[r.offered[k].resp].status = 200
            /\ \A k \in 1..Len(r.produced) : responses[r.produced[k].resp].status = 200
            /\ r.kind = only200.kind
            /\ r.err = only200.err
            /\ PathsOf(r.offered) = PathsOf(only200.offered)
            /\ Untagged(r.metrics) = Untagged(only200.metrics)
            /\ r.compiled = only200.compiled
            /\ r.kind = "Ok" =>
                   \A i \in 1..Len(responses) :
                       (responses[i].status = 200 /\ responses[i].value.t = "Number") =>
                           \E k \in 1..Len(r.offered) : r.offered[k].resp = i
    ]_vars

\* a batch of a 404 response that carries a number and a 200 response, of
\* which only the 200 response gave a metric
C9_Witness ==
    /\ tr_pc = "done"
    /\ Len(responses) = 2
    /\ responses[1].status = 404 /\ responses[1].value.t = "Number"
    /\ responses[2].status = 200
    /\ tr_result.kind = "Ok"
    /\ tr_result.metrics # <<>>
    /\ \A k \in 1..Len(tr_result.metrics) : tr_result.metrics[k].resp = 2

\* the attribute path transform_composite builds for the entry `key`
EntryPath(response, key) ==
    flatten_mbean_name(response.request.mbean,
                       Some(IF response.request.attribute.names = <<>>
                            THEN key
                            ELSE response.request.attribute.names[1] \o <<"<">> \o key \o <<">">>))

\* C11: for one status-200 response whose value is a Composite of numbers,
\* strings, booleans and nulls, read without an attribute or with one
\* attribute, and the single rule `.*`, transform emits exactly one metric per
\* Integer or Float entry and offers no String, Boolean or Null entry to the
\* rules, whatever the string is.
C11_OneMetricPerNumericEntry ==
    (/\ tr_pc = "done"
     /\ config_rules = <<CR_all>>
     /\ Len(responses) = 1
     /\ responses[1].status = 200
     /\ responses[1].value.t = "Composite"
     /\ Len(responses[1].request.attribute.names) <= 1
     /\ \A e \in responses[1].value.map : e.v.t # "Object")
    => /\ tr_result.kind = "Ok"
       /\ Len(tr_result.metrics) =
              Cardinality({e \in responses[1].value.map : e.v.t \in {"Integer", "Float"}})
       /\ \A e \in responses[1].value.map :
              e.v.t \in {"String", "Boolean", "Null"} =>
                  \A k \in 1..Len(tr_result.offered) :
                      tr_result.offered[k].path # EntryPath(responses[1], e.k)

StartsWith(s, prefix) ==
    Len(prefix) <= Len(s) /\ SubSeq(s, 1, Len(prefix)) = prefix

\* C12: every path offered to the rules for a leaf of a Number or Composite
\* response whose request names attributes starts with the flattened MBean
\* name (domain and property segments) followed by <attribute> for one of
\* the named attributes; composite key segments come after it.
C12_AttributeSegmentInPath ==
    tr_pc = "done" =>
        \A k \in 1..Len(tr_result.offered) :
            \A r \in {responses[tr_result.offered[k].resp]} :
                (r.request.attribute.names # <<>> /\ r.value.t \in {"Number", "Composite"}) =>
                    \E i \in 1..Len(r.request.attribute.names) :
                        StartsWith(tr_result.offered[k].path,
                                   flatten_mbean_name(r.request.mbean, None) \o <<"<">>
                                       \o r.request.attribute.names[i] \o <<">">>)

\* C13: for the same responses and the same rules, the text that transform
\* followed by format produces does not depend on the order in which the
\* composite, wildcard and label maps are iterated: a run that iterates them
\* in ascending key order and a run that iterates them in descending key
\* order write the same bytes.
C13_OutputIndependentOfMapOrder ==
    tr_pc = "ready" =>
        \A a \in {transform(TheEngine, compiled, "asc", responses)} :
        \A d \in {transform(TheEngine, compiled, "desc", responses)} :
            /\ a.kind = d.kind
            /\ a.kind = "Ok" =>
                   format(PrometheusFormatter(FALSE), a.metrics)
                       = format(PrometheusFormatter(FALSE), d.metrics)

-----------------------------------------------------------------------------
(* Nested composites                                                       *)

\* the key sequences K1, K2, ... that lead to the numeric leaves of a composite
RECURSIVE LeafKeys(_)
LeafKeys(map) ==
    UNION {IF e.v.t \in {"Integer", "Float"} THEN {<<e.k>>}
           ELSE IF e.v.t = "Object" THEN {<<e.k>> \o rest : rest \in LeafKeys(e.v.map)}
           ELSE {} : e \in map}

\* <K1><K2>...
RECURSIVE Segments(_)
Segments(keys) ==
    IF keys = <<>> THEN <<>> ELSE <<"<">> \o keys[1] \o <<">">> \o Segments(Tail(keys))

\* the path of a leaf: the flattened MBean name, the request attribute if
\* there is one, and the keys in traversal order
LeafPath(response, keys) ==
    flatten_mbean_name(response.request.mbean, None)
        \o Segments(response.request.attribute.names \o keys)

Offered(i, path) ==
    \E k \in 1..Len(tr_result.offered) :
        tr_result.offered[k].resp = i /\ tr_result.offered[k].path = path

\* the Composite responses of the batch read with at most one attribute
CompositeReads ==
    {i \in 1..Len(responses) :
        /\ responses[i].status = 200
        /\ responses[i].value.t = "Composite"
        /\ Len(responses[i].request.attribute.names) <= 1
        /\ ObjectNameParse(responses[i].request.mbean).ok}

\* C22: after a transform that succeeded, every numeric leaf of a Composite
\* response, at any depth, was offered to the rules under the path
\* <K1><K2>... of its keys.
C22_NestedLeavesVisited ==
    (tr_pc = "done" /\ tr_result.kind = "Ok") =>
        \A i \in CompositeReads :
            \A keys \in LeafKeys(responses[i].value.map) :
                Offered(i, LeafPath(responses[i], keys))

-----------------------------------------------------------------------------
(* JolokiaClient::read_mbean_with_retry                                    *)

ruleVars == <<config_rules, rules, compiled>>

\* no rule set is part of this run
RulesIdle ==
    /\ config_rules = <<>>
    /\ rules = <<>>
    /\ compiled = {}

M_n == <<"n">>
M_b == <<"b">>

\* what the endpoint may do with one request
ExchangePool ==
    {XSendError, XHttp(503), XHttp(404), XBodyError, XNotJson,
     XJolokia(200, Some(ValNumber(7)), None),
     XJolokia(404, None, Some(M_n)),
     XJolokia(500, None, Some(M_b)),
     XJolokia(503, None, None)}

MaxRetriesBound == 3

\* initial_delay, max_delay (ms) and multiplier
DelayCases ==
    {<<8, 20, MulRatio(3, 2)>>, <<8, 20, MulNaN>>, <<8, 20, MulZero>>,
     <<8, 20, MulRatio(-1, 1)>>, <<8, 20, MulInf>>, <<8, 20, MulHuge>>,
     <<0, 20, MulHuge>>, <<30, 20, MulRatio(3, 2)>>}

RetryConfigs ==
    {RetryConfigDefault} \cup
    {RetryConfig(n, c[1], c[2], c[3]) : n \in 0..MaxRetriesBound, c \in DelayCases}

InitRetry ==
    /\ LibIdle
    /\ ScrapeIdle
    /\ RulesIdle
    /\ MatchIdle
    /\ EngineIdle
    /\ CollectIdle
    /\ retry_config \in RetryConfigs
    /\ rt = RetryStart(retry_config)
    /\ rt_reads = <<>>
    /\ rt_sleeps = <<>>

\* one iteration of `for attempt in 0..=config.max_retries`
RetryAttempt ==
    /\ rt.pc = "loop"
    /\ rt.attempt <= retry_config.max_retries
    /\ \E x \in ExchangePool :
          LET out == read_mbean(MB_Memory, AttrAbsent, x)
              st == RetryIteration(retry_config, rt, out)
          IN  /\ rt' = st
              /\ rt_reads' = Append(rt_reads, out)
              /\ rt_sleeps' = IF st.slept.some
                              THEN Append(rt_sleeps, [d |-> st.slept.v,
                                                      after |-> Len(rt_reads) + 1])
                              ELSE rt_sleeps
    /\ UNCHANGED <<retry_config, ruleVars, fm_input, fm_result, fm_pc, engineVars, collectVars, scrapeVars>>
    /\ UNCHANGED libVars

\* the loop is over
RetryGiveUp ==
    /\ rt.pc = "loop"
    /\ rt.attempt > retry_config.max_retries
    /\ rt' = RetryExhaust(rt)
    /\ UNCHANGED <<retry_config, rt_reads, rt_sleeps>>
    /\ UNCHANGED <<ruleVars, fm_input, fm_result, fm_pc, engineVars, collectVars, scrapeVars>>
    /\ UNCHANGED libVars

NextRetry == RetryAttempt \/ RetryGiveUp

SpecRetry == InitRetry /\ [][NextRetry]_vars

\* the outcomes of one attempt
IsStatus200(out) == out.ok /\ out.response.status = 200
RetryableOutcome(out) ==
    IF out.ok
    THEN out.response.status >= 500 /\ out.response.status <= 599
    ELSE \/ out.error.kind \in {"HttpRequest", "HttpResponse", "Timeout", "ConnectionFailed"}
         \/ (out.error.kind = "HttpStatus" /\ out.error.code >= 500 /\ out.error.code <= 599)
RetryOver == rt.pc \in {"done", "panicked"}

\* C3: another attempt is made if and only if the previous attempt ended in
\* a retryable outcome and retries remain; after a non-retryable failure (HTTP
\* 4xx, JSON parse error, Jolokia non-5xx status) the call returns at once
\* without sleeping.
C3_RetryIffRetryableAndRemaining ==
    /\ \A k \in 1..(Len(rt_reads) - 1) :
           RetryableOutcome(rt_reads[k]) /\ k <= retry_config.max_retries
    /\ (RetryOver /\ rt_reads # <<>>) =>
           ~(RetryableOutcome(rt_reads[Len(rt_reads)])
             /\ Len(rt_reads) <= retry_config.max_retries)
    /\ \A k \in 1..Len(rt_reads) :
           (~RetryableOutcome(rt_reads[k]) /\ ~IsStatus200(rt_reads[k])) =>
               /\ k = Len(rt_reads)
               /\ rt.pc = "done"
               /\ rt.result = rt_reads[k]
               /\ \A j \in 1..Len(rt_sleeps) : rt_sleeps[j].after # k

\* C4: the call ends after at most max_retries + 1 reads (4 with the default
\* configuration), sleeps exactly once between two consecutive attempts and
\* never after the last one, and stops at the first status-200 response.
C4_BoundedAttemptsOneSleepBetween ==
    /\ Len(rt_reads) <= retry_config.max_retries + 1
    /\ retry_config = RetryConfigDefault => Len(rt_reads) <= 4
    /\ \A j \in 1..Len(rt_sleeps) : rt_sleeps[j].after = j
    /\ \A j \in 1..Len(rt_sleeps) : j < Len(rt_reads) \/ ~RetryOver
    /\ \A k \in 1..(Len(rt_reads) - 1) : \E j \in 1..Len(rt_sleeps) : rt_sleeps[j].after = k
    /\ \A k \in 1..Len(rt_reads) :
           IsStatus200(rt_reads[k]) =>
               (k = Len(rt_reads) /\ rt.pc = "done" /\ rt.result = rt_reads[k])

\* the error an attempt leaves behind
ErrorOfAttempt(out) ==
    IF out.ok
    THEN ErrJolokiaError(out.response.status,
                         IF out.response.error.some THEN out.response.error.v
                         ELSE UnknownJolokiaError)
    ELSE out.error

\* the call ran out of attempts
Exhausted ==
    /\ rt.pc = "done"
    /\ Len(rt_reads) = retry_config.max_retries + 1
    /\ RetryableOutcome(rt_reads[Len(rt_reads)])

\* C6: a call that exhausts its attempts returns the error of its last
\* attempt; when every attempt was an HTTP-200 body with a Jolokia status
\* 500-599 that is Err(JolokiaError) with the status of the last response and
\* its error text ("Unknown Jolokia error" when the response has none).
C6_ExhaustionReturnsLastError ==
    Exhausted =>
        LET last == rt_reads[Len(rt_reads)] IN
        /\ ~rt.result.ok
        /\ rt.result.error = ErrorOfAttempt(last)
        /\ (\A k \in 1..Len(rt_reads) : rt_reads[k].ok) =>
               /\ rt.result.error.kind = "JolokiaError"
               /\ rt.result.error.code = last.response.status
               /\ last.response.error.some => rt.result.error.message = last.response.error.v

\* an exhausted call whose attempts were all Jolokia 5xx bodies, the first
\* different from the last
C6_Witness ==
    /\ Exhausted
    /\ Len(rt_reads) >= 2
    /\ \A k \in 1..Len(rt_reads) : rt_reads[k].ok
    /\ rt_reads[1].response.status # rt_reads[Len(rt_reads)].response.status
    /\ rt_reads[Len(rt_reads)].response.error.some

\* the multiplier the claim names: the configured one if finite and > 0, else 2
ClaimedMultiplier ==
    IF retry_config.multiplier.kind \in {"ratio", "huge"}
       /\ (retry_config.multiplier.kind = "huge" \/ retry_config.multiplier.num > 0)
    THEN retry_config.multiplier
    ELSE MulRatio(2, 1)

\* min(d * m, max_delay)
ClaimedNext(d) ==
    IF ClaimedMultiplier.kind = "huge"
    THEN IF d = 0 THEN 0 ELSE retry_config.max_delay
    ELSE Min((d * ClaimedMultiplier.num) \div ClaimedMultiplier.den, retry_config.max_delay)

RECURSIVE ClaimedDelay(_)
ClaimedDelay(n) == IF n = 0 THEN retry_config.initial_delay ELSE ClaimedNext(ClaimedDelay(n - 1))

\* C7: delay_0 = initial_delay (100 ms by default), delay_{n+1} =
\* min(delay_n * m, max_delay) with m the configured multiplier if finite and
\* > 0 and 2.0 otherwise; the n-th sleep lasts delay_n, and after it the
\* delay held for the next sleep is delay_{n+1}.
C7_GeometricDelays ==
    /\ RetryStart(RetryConfigDefault).delay = 100
    /\ \A j \in 1..Len(rt_sleeps) : rt_sleeps[j].d = ClaimedDelay(j - 1)
    /\ rt.pc \in {"loop", "panicked"} => rt.delay = ClaimedDelay(Len(rt_sleeps))

-----------------------------------------------------------------------------
(* JolokiaClient::collect_with_fallback                                    *)

CollectMBeans == {MB_Memory, MB_Collector, MB_Unparsable}

CollectExchanges ==
    {XHttp(503), XSendError, XNotJson,
     XJolokia(200, Some(ValNumber(7)), None),
     XJolokia(404, None, Some(M_n))}

MaxMBeans == 3

InitCollect ==
    /\ LibIdle
    /\ ScrapeIdle
    /\ RulesIdle
    /\ MatchIdle
    /\ EngineIdle
    /\ RetryIdle
    /\ cf_mbeans \in SeqsUpTo(CollectMBeans, MaxMBeans)
    /\ cf_results = <<>>
    /\ cf_calls = <<>>
    /\ cf_pc = "reading"

\* one iteration of `for mbean in mbeans`
CollectRead ==
    /\ cf_pc = "reading"
    /\ Len(cf_calls) < Len(cf_mbeans)
    /\ \E x \in CollectExchanges :
          LET mbean == cf_mbeans[Len(cf_calls) + 1]
              out == read_mbean(mbean, AttrAbsent, x)
              st == CollectIteration([results |-> cf_results, pc |-> cf_pc], mbean, out)
          IN  /\ cf_calls' = Append(cf_calls, [mbean |-> mbean, x |-> x])
              /\ cf_results' = st.results
              /\ cf_pc' = st.pc
    /\ UNCHANGED <<cf_mbeans, ruleVars, fm_input, fm_result, fm_pc, engineVars, retryVars, scrapeVars>>
    /\ UNCHANGED libVars

\* the loop is over: return results
CollectReturn ==
    /\ cf_pc = "reading"
    /\ Len(cf_calls) = Len(cf_mbeans)
    /\ cf_pc' = "done"
    /\ UNCHANGED <<cf_mbeans, cf_results, cf_calls>>
    /\ UNCHANGED <<ruleVars, fm_input, fm_result, fm_pc, engineVars, retryVars, scrapeVars>>
    /\ UNCHANGED libVars

NextCollect == CollectRead \/ CollectReturn

SpecCollect == InitCollect /\ [][NextCollect]_vars

\* C5: against an endpoint that answers HTTP 503 to every call,
\* collect_with_fallback makes max_retries + 1 reads for each MBean and
\* returns Err(MaxRetriesExceeded) for it.
C5_Always503ExhaustsRetries ==
    (/\ cf_pc = "done"
     /\ cf_mbeans # <<>>
     /\ \A k \in 1..Len(cf_calls) : cf_calls[k].x = XHttp(503)) =>
        /\ Len(cf_calls) = Len(cf_mbeans) * (RetryConfigDefault.max_retries + 1)
        /\ \A i \in 1..Len(cf_results) :
               cf_results[i].result = [ok |-> FALSE, error |-> ErrMaxRetriesExceeded]

\* C8: the MBeans are read one after another in input order, the result has
\* exactly one (mbean, result) entry per input MBean in that order, each the
\* outcome of that MBean's read; a failed read or a non-200 response ends
\* neither the reads nor the call.
C8_OneEntryPerMBeanInOrder ==
    /\ Len(cf_results) = Len(cf_calls)
    /\ Len(cf_calls) <= Len(cf_mbeans)
    /\ \A i \in 1..Len(cf_calls) : cf_calls[i].mbean = cf_mbeans[i]
    /\ \A i \in 1..Len(cf_results) :
           /\ cf_results[i].mbean = cf_mbeans[i]
           /\ cf_results[i].result = read_mbean(cf_mbeans[i], AttrAbsent, cf_calls[i].x)
    /\ cf_pc = "done" => Len(cf_results) = Len(cf_mbeans)

\* a finished call whose first read failed, whose second gave a non-200
\* response and whose third succeeded
C8_Witness ==
    /\ cf_pc = "done"
    /\ Len(cf_results) = 3
    /\ ~cf_results[1].result.ok
    /\ cf_results[2].result.ok /\ cf_results[2].result.response.status # 200
    /\ cf_results[3].result.ok /\ cf_results[3].result.response.status = 200

-----------------------------------------------------------------------------
(* GET /metrics                                                            *)

\* the model's stand-ins for the default MBean names
DEFAULT_MBEANS == <<MB_Memory, MB_Collector>>

B_G == <<"G">>

\* whitelist and blacklist
ScrapeLists ==
    {<<<<>>, {}>>, <<<<MB_Collector, MB_Memory>>, {}>>, <<<<MB_Memory, MB_Collector>>, {B_G}>>,
     <<<<MB_Collector>>, {}>>}

\* what the endpoint may do with the read of one MBean
ScrapeExchanges ==
    {XJolokia(200, Some(ValComposite({Entry(A_T, AttrInteger(5)),
                                      Entry(A_H, AttrObject({Entry(K_u, AttrInteger(2))}))})),
              None),
     XJolokia(200, Some(ValComposite({Entry(A_C, AttrInteger(7))})), None),
     XJolokia(404, None, Some(M_n)),
     XHttp(503)}

MaxScrapes == 2

\* AppState: the server compiles every rule before it builds the engine and
\* does not start when one fails; an AppState built by hand may hold rules
\* that were never compiled
InitScrape ==
    /\ LibIdle
    /\ MatchIdle
    /\ RetryIdle
    /\ CollectIdle
    /\ config_rules \in SeqsUpTo(EngineRulePool, MaxEngineRules)
    /\ rules = config_to_ruleset(config_rules)
    /\ compiled \in {{}} \cup (IF compile_all(rules).ok THEN {compile_all(rules).compiled} ELSE {})
    /\ lowercase_names = FALSE
    /\ lowercase_labels = FALSE
    /\ hash_order = "asc"
    /\ responses = <<>>
    /\ tr_result = NoResult
    /\ tr_pc = "idle"
    /\ \E l \in ScrapeLists : whitelist_object_names = l[1] /\ blacklist_object_names = l[2]
    /\ sc = NoScrape
    /\ registry = RegistryNew

\* one GET /metrics
Scrape ==
    /\ sc.scrapes < MaxScrapes
    /\ LET mbeans_to_collect == IF whitelist_object_names # <<>>
                                THEN whitelist_object_names
                                ELSE DEFAULT_MBEANS
       IN  \E xs \in [1..Len(mbeans_to_collect) -> ScrapeExchanges] :
              \E after \in {metrics(TheEngine, compiled, hash_order, mbeans_to_collect,
                                      blacklist_object_names, xs, registry, sc.scrapes)} :
                  /\ sc' = after.sc
                  /\ registry' = after.registry
                  /\ compiled' = after.sc.compiled
    /\ UNCHANGED <<config_rules, rules, whitelist_object_names, blacklist_object_names>>
    /\ UNCHANGED <<fm_input, fm_result, fm_pc, engineVars, retryVars, collectVars>>
    /\ UNCHANGED libVars

NextScrape == Scrape

SpecScrape == InitScrape /\ [][NextScrape]_vars

\* C10: when transform fails on a leaf, the scrape still serves the metrics
\* the engine had produced from the other leaves and responses, and counts
\* an error.
C10_TransformErrorKeepsOtherMetrics ==
    (sc.pc = "served" /\ sc.transform.kind = "Err") =>
        /\ \A k \in 1..Len(sc.transform.produced) :
               \E j \in 1..Len(sc.metrics) : sc.metrics[j] = sc.transform.produced[k]
        /\ \E k \in 1..Len(sc.errors) : sc.errors[k].what = "transform"

\* the reads of a scrape that failed: Err, or a response whose status is not 200
FailedReads(reads) == Cardinality({i \in 1..Len(reads) : reads[i] # 200})

ScrapeErrorCount(scrape) ==
    FailedReads(scrape.reads) + (IF scrape.transform.kind = "Err" THEN 1 ELSE 0)

\* C17: a scrape adds exactly 1 to exactly one of the success and the
\* failure counter of the target; it is the failure counter if and only if a
\* read failed (Err or a status other than 200) or transform failed, and
\* rjmx_exporter_scrape_errors is the number of these errors.
C17_OneCounterPerScrape ==
    [][sc'.scrapes = sc.scrapes + 1 =>
        /\ \/ /\ registry'.scrape_success_total = registry.scrape_success_total + 1
              /\ registry'.scrape_failure_total = registry.scrape_failure_total
           \/ /\ registry'.scrape_failure_total = registry.scrape_failure_total + 1
              /\ registry'.scrape_success_total = registry.scrape_success_total
        /\ (registry'.scrape_failure_total = registry.scrape_failure_total + 1)
               <=> ScrapeErrorCount(sc') > 0
        /\ sc'.scrape_errors = ScrapeErrorCount(sc')
    ]_vars

\* two scrapes were served: one clean, and the last one with a failed read
\* and a transform error
C17_Witness ==
    /\ sc.pc = "served"
    /\ registry.scrape_success_total = 1
    /\ registry.scrape_failure_total = 1
    /\ FailedReads(sc.reads) = 1
    /\ sc.transform.kind = "Err"
    /\ sc.scrape_errors = 2

-----------------------------------------------------------------------------
(* PrometheusFormatter::format on a sequence of metrics                    *)

Metric(name, metric_type, help, labels, value, timestamp) ==
    [name |-> name, metric_type |-> metric_type, help |-> help, labels |-> labels,
     value |-> value, timestamp |-> timestamp]

N_a == <<"a">>
N_b == <<"b", "_", "1">>

FormatPool ==
    {Metric(N_a, "Gauge", Some(<<"h", "\\", "\n">>), {}, 1, None),
     Metric(N_a, "Counter", None, {[k |-> <<"k">>, v |-> <<"\"", "x">>]}, 0 - 12, Some(5)),
     Metric(N_b, "Untyped", None, {[k |-> <<"k">>, v |-> <<"y">>], [k |-> <<"b">>, v |-> <<"\n">>]}, 3, None),
     Metric(N_b, "Histogram", Some(<<"a">>), {}, 0, None),
     Metric(<<"c">>, "Gauge", Some(<<"#", " ", "T">>), {}, 7, None)}

MaxFormatMetrics == 3

InitFormat ==
    /\ ScrapeIdle /\ EngineIdle /\ RetryIdle /\ CollectIdle /\ MatchIdle /\ RulesIdle
    /\ NameIdle /\ SubstIdle /\ UrlIdle /\ CounterIdle /\ OnceIdle /\ UnitIdle
    /\ formatter \in {PrometheusFormatter(FALSE), PrometheusFormatter(TRUE)}
    /\ fmt_metrics \in SeqsUpTo(FormatPool, MaxFormatMetrics)
    /\ fmt_output = <<>>
    /\ fmt_pc = "ready"

\* formatter.format(&metrics)
FormatCall ==
    /\ fmt_pc = "ready"
    /\ fmt_output' = format(formatter, fmt_metrics)
    /\ fmt_pc' = "done"
    /\ UNCHANGED <<formatter, fmt_metrics>>
    /\ UNCHANGED <<matchVars, engineVars, retryVars, collectVars, scrapeVars>>
    /\ UNCHANGED <<nameVars, substVars, urlVars, counterVars, onceVars, unitVars>>

NextFormat == FormatCall

SpecFormat == InitFormat /\ [][NextFormat]_vars

\* the lines of a text that ends every line with a newline
Lines(text) == SubSeq(Split(text, "\n"), 1, Len(Split(text, "\n")) - 1)

P_HELP == <<"#", " ", "H", "E", "L", "P", " ">>
P_TYPE == <<"#", " ", "T", "Y", "P", "E", " ">>

LineKind(line) ==
    IF StartsWith(line, P_HELP) THEN "help"
    ELSE IF StartsWith(line, P_TYPE) THEN "type"
    ELSE "sample"

\* the characters of s before the first character of `stops`
RECURSIVE Before(_, _)
Before(str, stops) ==
    IF str = <<>> \/ str[1] \in stops THEN <<>> ELSE <<str[1]>> \o Before(Tail(str), stops)

\* the metric name a line of the output is about
LineName(line) ==
    IF LineKind(line) = "sample" THEN Before(line, {"{", " "})
    ELSE Before(SubSeq(line, 8, Len(line)), {" "})

\* the names of a sequence in order of first occurrence
RECURSIVE FirstOccurrences(_)
FirstOccurrences(names) ==
    IF names = <<>> THEN <<>>
    ELSE LET rest == FirstOccurrences(SubSeq(names, 1, Len(names) - 1))
             last == names[Len(names)]
         IN  IF \E i \in 1..Len(rest) : rest[i] = last THEN rest ELSE Append(rest, last)

IsSample(line) == LineKind(line) = "sample"

FormatShape(ls, ms) ==
    \A samples \in {SelectSeq(ls, IsSample)} :
        \* every metric has its sample, group by group in first-occurrence order
        /\ Len(samples) = Len(ms)
        /\ FirstOccurrences([i \in 1..Len(samples) |-> LineName(samples[i])])
               = FirstOccurrences([i \in 1..Len(ms) |-> ms[i].name])
        /\ \A n \in {ms[i].name : i \in 1..Len(ms)} :
               /\ Cardinality({i \in 1..Len(samples) : LineName(samples[i]) = n})
                      = Cardinality({i \in 1..Len(ms) : ms[i].name = n})
               \* the samples of a name are contiguous
               /\ \A i, j, k \in 1..Len(ls) :
                      (/\ i < j /\ j < k
                       /\ IsSample(ls[i]) /\ IsSample(ls[j]) /\ IsSample(ls[k])
                       /\ LineName(ls[i]) = n /\ LineName(ls[k]) = n) => LineName(ls[j]) = n
               \* TYPE once, HELP at most once, both before the first sample
               /\ Cardinality({i \in 1..Len(ls) : LineKind(ls[i]) = "type" /\ LineName(ls[i]) = n}) = 1
               /\ Cardinality({i \in 1..Len(ls) : LineKind(ls[i]) = "help" /\ LineName(ls[i]) = n}) <= 1
               /\ \A i, j \in 1..Len(ls) :
                      (/\ LineKind(ls[i]) \in {"type", "help"} /\ LineName(ls[i]) = n
                       /\ IsSample(ls[j]) /\ LineName(ls[j]) = n) => i < j

\* C14: the output of format holds one sample line per metric; the groups
\* come in order of first occurrence of each name, the samples of a name are
\* contiguous, and each name has exactly one `# TYPE` line and at most one
\* `# HELP` line, both before the first sample of the name.
C14_GroupsInFirstOccurrenceOrder ==
    fmt_pc = "done" => FormatShape(Lines(fmt_output), fmt_metrics)

\* three metrics named a, b_1, a were formatted: the second a joins the first
C14_Witness ==
    /\ fmt_pc = "done"
    /\ Len(fmt_metrics) = 3
    /\ fmt_metrics[1].name = N_a /\ fmt_metrics[2].name = N_b /\ fmt_metrics[3].name = N_a
    /\ fmt_metrics[1].help.some
    /\ Len(Lines(fmt_output)) = 6

-----------------------------------------------------------------------------
(* TransformEngine::validate_metric_name on a name                         *)

NameChars == {"1", "a", "-", ".", ":", "_"}

MaxNameLen == 3

NameInputs ==
    SeqsUpTo(NameChars, MaxNameLen)
        \cup {<<"1", "2", "3", "a", "b", "c">>, <<"a", "-", "b", ".", "c">>, <<"e'", "9">>}

InitName ==
    /\ ScrapeIdle /\ EngineIdle /\ RetryIdle /\ CollectIdle /\ MatchIdle /\ RulesIdle
    /\ FormatIdle /\ SubstIdle /\ UrlIdle /\ CounterIdle /\ OnceIdle /\ UnitIdle
    /\ name_input \in NameInputs
    /\ name_output = <<>>
    /\ name_pc = "ready"

\* engine.validate_metric_name(name)
ValidateNameCall ==
    /\ name_pc = "ready"
    /\ name_output' = validate_metric_name(name_input)
    /\ name_pc' = "done"
    /\ UNCHANGED name_input
    /\ UNCHANGED <<matchVars, engineVars, retryVars, collectVars, scrapeVars>>
    /\ UNCHANGED <<formatVars, substVars, urlVars, counterVars, onceVars, unitVars>>

NextName == ValidateNameCall

SpecName == InitName /\ [][NextName]_vars

\* every character outside [a-zA-Z0-9_:] replaced with `_`
ReplaceInvalid(name) ==
    [i \in 1..Len(name) |->
        IF IsAsciiAlphanumeric(name[i]) \/ name[i] \in {"_", ":"} THEN name[i] ELSE "_"]

\* C15: validate_metric_name replaces every invalid character with `_` and,
\* when the result begins with a digit, prepends `_` without dropping a
\* character: `123abc` gives `_123abc`, `a-b.c` gives `a_b_c`.
C15_SanitizeKeepsEveryCharacter ==
    name_pc = "done" =>
        name_output = IF ReplaceInvalid(name_input) # <<>> /\ IsAsciiDigit(ReplaceInvalid(name_input)[1])
                      THEN <<"_">> \o ReplaceInvalid(name_input)
                      ELSE ReplaceInvalid(name_input)

-----------------------------------------------------------------------------
(* apply_substitution on a template and the captures of a match            *)

\* the captures of (?P<t>M)(?P<t2>y)?x on `Mx`: group 2 did not participate
Caps_named ==
    [ok |-> TRUE,
     groups |-> <<Some(<<"M", "x">>), Some(<<"M">>), None>>,
     names |-> {[name |-> <<"t">>, gid |-> 1], [name |-> <<"t", "2">>, gid |-> 2]}]
\* the captures of q on `q`: no group but the whole match
Caps_plain == [ok |-> TRUE, groups |-> <<Some(<<"q">>)>>, names |-> {}]

TemplateChars == {"$", "1", "2", "t", "_", "e'"}

MaxTemplateLen == 4

InitSubst ==
    /\ ScrapeIdle /\ EngineIdle /\ RetryIdle /\ CollectIdle /\ MatchIdle /\ RulesIdle
    /\ FormatIdle /\ NameIdle /\ UrlIdle /\ CounterIdle /\ OnceIdle /\ UnitIdle
    /\ sub_template \in SeqsUpTo(TemplateChars, MaxTemplateLen)
    /\ sub_captures \in {Caps_named, Caps_plain}
    /\ sub_output = <<>>
    /\ sub_pc = "ready"

\* apply_substitution(template, &captures)
SubstitutionCall ==
    /\ sub_pc = "ready"
    /\ sub_output' = apply_substitution(sub_template, sub_captures)
    /\ sub_pc' = "done"
    /\ UNCHANGED <<sub_template, sub_captures>>
    /\ UNCHANGED <<matchVars, engineVars, retryVars, collectVars, scrapeVars>>
    /\ UNCHANGED <<formatVars, nameVars, urlVars, counterVars, onceVars, unitVars>>

NextSubst == SubstitutionCall

SpecSubst == InitSubst /\ [][NextSubst]_vars

\* how many leading characters of str are in `set`
RECURSIVE LeadingRun(_, _)
LeadingRun(str, set) ==
    IF str # <<>> /\ str[1] \in set THEN 1 + LeadingRun(Tail(str), set) ELSE 0

Letters == AsciiLower \cup AsciiUpper \cup NonAsciiLetters

\* the text of a numbered or named group: empty when there is no such group
\* or it did not participate
GroupText(caps, gid) ==
    IF gid + 1 <= Len(caps.groups) /\ caps.groups[gid + 1].some
    THEN caps.groups[gid + 1].v ELSE <<>>
NamedText(caps, name) ==
    IF \E n \in caps.names : n.name = name
    THEN GroupText(caps, (CHOOSE n \in caps.names : n.name = name).gid)
    ELSE <<>>

\* the substitution as the rules of the template language state it
RECURSIVE Substituted(_, _)
Substituted(t, caps) ==
    IF t = <<>> THEN <<>>
    ELSE IF t[1] # "$" THEN <<t[1]>> \o Substituted(Tail(t), caps)
    ELSE IF LeadingRun(Tail(t), AsciiDigits) > 0
    THEN GroupText(caps, ParseUsize(SubSeq(t, 2, 1 + LeadingRun(Tail(t), AsciiDigits))))
         \o Substituted(SubSeq(t, 2 + LeadingRun(Tail(t), AsciiDigits), Len(t)), caps)
    ELSE IF LeadingRun(Tail(t), Letters) > 0
    THEN NamedText(caps, SubSeq(t, 2, 1 + LeadingRun(Tail(t), Letters \cup AsciiDigits)))
         \o Substituted(SubSeq(t, 2 + LeadingRun(Tail(t), Letters \cup AsciiDigits), Len(t)), caps)
    ELSE <<"$">> \o Substituted(Tail(t), caps)

\* C16: apply_substitution replaces `$N` (N: all the decimal digits that
\* follow) with group N and `$ident` (a letter followed by letters and digits;
\* an underscore ends the name and is kept) with the named group, substitutes
\* the empty string for a group that does not exist or did not participate,
\* keeps a `$` at the end or before any other character, and always returns
\* a string.
C16_SubstitutionRules ==
    sub_pc = "done" => sub_output = Substituted(sub_template, sub_captures)

\* `$t_$2` on captures whose group t is `M` and whose group 2 did not
\* participate gave `M_`
C16_Witness ==
    /\ sub_pc = "done"
    /\ sub_template = <<"$", "t", "_", "$">> 
    /\ sub_captures = Caps_named
    /\ sub_output = <<"M", "_", "$">>

-----------------------------------------------------------------------------
(* The public operations of a Counter, called by any number of tasks: each *)
(* is one atomic instruction, so the calls form one sequence               *)

MaxCounterOps == 5

\* the amounts handed to inc_by
IncAmounts == {U64_ZERO, U64(2, 0, 0, 0), U64(0, 0, 0, 32768), U64_MAX}

InitCounter ==
    /\ ScrapeIdle /\ EngineIdle /\ RetryIdle /\ CollectIdle /\ MatchIdle /\ RulesIdle
    /\ FormatIdle /\ NameIdle /\ SubstIdle /\ UrlIdle /\ OnceIdle /\ UnitIdle
    /\ counter = CounterNew
    /\ counter_got = None
    /\ counter_ops = 0

CounterUnchanged ==
    /\ UNCHANGED <<matchVars, engineVars, retryVars, collectVars, scrapeVars>>
    /\ UNCHANGED <<formatVars, nameVars, substVars, urlVars, onceVars, unitVars>>

\* counter.inc()
Inc ==
    /\ counter_ops < MaxCounterOps
    /\ counter' = CounterInc(counter)
    /\ counter_ops' = counter_ops + 1
    /\ UNCHANGED counter_got
    /\ CounterUnchanged

\* counter.inc_by(n)
IncBy ==
    /\ counter_ops < MaxCounterOps
    /\ \E n \in IncAmounts : counter' = CounterIncBy(counter, n)
    /\ counter_ops' = counter_ops + 1
    /\ UNCHANGED counter_got
    /\ CounterUnchanged

\* counter.get()
Get ==
    /\ counter_ops < MaxCounterOps
    /\ counter_got' = Some(CounterGet(counter))
    /\ counter_ops' = counter_ops + 1
    /\ UNCHANGED counter
    /\ CounterUnchanged

\* counter.reset()
Reset ==
    /\ counter_ops < MaxCounterOps
    /\ counter' = CounterReset(counter)
    /\ counter_ops' = counter_ops + 1
    /\ UNCHANGED counter_got
    /\ CounterUnchanged

NextCounter == Inc \/ IncBy \/ Get \/ Reset

SpecCounter == InitCounter /\ [][NextCounter]_vars

\* C18: whatever public operations are called on a Counter and in whatever
\* order, a get never returns less than the get before it.
C18_GetNeverDecreases ==
    [][(counter_got.some /\ counter_got'.some) =>
           ~LessU64(counter_got'.v, counter_got.v)]_vars

-----------------------------------------------------------------------------
(* Rule::compile called by several tasks on one rule that is not compiled  *)

NumTasks == 3
MaxCalls == 2

Tasks == 1..NumTasks

\* the rules compiled: two whose pattern compiles, one that Regex::new
\* rejects, one that convert_java_regex rejects
OnceRules == {RuleOfConfig(CR_attr), RuleOfConfig(CR_all),
              RuleOfConfig(CR_unclosed), RuleOfConfig(CR_lookahead)}

InitOnce ==
    /\ ScrapeIdle /\ EngineIdle /\ RetryIdle /\ CollectIdle /\ MatchIdle /\ RulesIdle
    /\ FormatIdle /\ NameIdle /\ SubstIdle /\ UrlIdle /\ CounterIdle /\ UnitIdle
    /\ \E rule \in OnceRules : cell = OnceCellNew(rule)
    /\ tasks = [t \in Tasks |-> [pc |-> "idle", calls |-> 0, returned |-> <<>>]]
    /\ compile_runs = <<>>

OnceUnchanged ==
    /\ UNCHANGED <<matchVars, engineVars, retryVars, collectVars, scrapeVars>>
    /\ UNCHANGED <<formatVars, nameVars, substVars, urlVars, counterVars, unitVars>>

\* a task calls rule.compile() (Rule::matches starts with the same call)
CompileCall(t) ==
    /\ tasks[t].pc = "idle"
    /\ tasks[t].calls < MaxCalls
    /\ tasks' = [tasks EXCEPT ![t].pc = "get", ![t].calls = @ + 1]
    /\ UNCHANGED <<cell, compile_runs>>
    /\ OnceUnchanged

\* get_or_try_init finds the cell set: the caller gets a reference to its value
GetCompiled(t) ==
    /\ tasks[t].pc = "get"
    /\ cell.state = "complete"
    /\ tasks' = [tasks EXCEPT ![t].pc = "idle",
                              ![t].returned = Append(@, [ok |-> TRUE, regex |-> cell.value.v])]
    /\ UNCHANGED <<cell, compile_runs>>
    /\ OnceUnchanged

\* get_or_try_init finds the cell empty: the caller becomes the initialiser.
\* A caller that finds the cell running waits, which is no step.
InitBegin(t) ==
    /\ tasks[t].pc = "get"
    /\ CanInitialize(cell.state)
    /\ cell' = [cell EXCEPT !.state = "running"]
    /\ tasks' = [tasks EXCEPT ![t].pc = "init"]
    /\ UNCHANGED compile_runs
    /\ OnceUnchanged

\* the closure ended with this result: on Ok the cell is set to the new Regex,
\* on Err it is left empty and the waiting callers try again.  compile_runs
\* notes the run and, for a successful one, the callers waiting for it.
InitFinished(t, re) ==
    /\ compile_runs' = Append(compile_runs,
                              [ok |-> re.ok,
                               contenders |-> IF re.ok THEN {u \in Tasks : tasks[u].pc = "get"}
                                              ELSE {}])
    /\ IF re.ok
       THEN /\ cell' = [cell EXCEPT !.state = "complete",
                                    !.value = Some([id |-> Len(compile_runs) + 1, re |-> re])]
            /\ tasks' = [tasks EXCEPT ![t].pc = "idle",
                                      ![t].returned = Append(@, [ok |-> TRUE, regex |-> cell'.value.v])]
       ELSE /\ cell' = [cell EXCEPT !.state = "incomplete"]
            /\ tasks' = [tasks EXCEPT ![t].pc = "idle",
                                      ![t].returned = Append(@, [ok |-> FALSE, err |-> re.err])]

InitEnd(t) ==
    /\ tasks[t].pc = "init"
    /\ \E re \in {CompileClosure(cell.rule)} : InitFinished(t, re)
    /\ OnceUnchanged

NextOnce ==
    \E t \in Tasks : CompileCall(t) \/ GetCompiled(t) \/ InitBegin(t) \/ InitEnd(t)

SpecOnce == InitOnce /\ [][NextOnce]_vars

SuccessfulRuns == {i \in 1..Len(compile_runs) : compile_runs[i].ok}

\* the Ok results the callers have got so far
OkResults(returned) == {returned[i].regex : i \in {j \in 1..Len(returned) : returned[j].ok}}
ReturnedRegexes == UNION {OkResults(tasks[t].returned) : t \in Tasks}

\* C19: with several tasks calling Rule::compile on a rule that is not yet
\* compiled, the closure succeeds at most once, every caller that gets Ok gets
\* the one regex held by the memo, and a memo that is set never changes.
C19_CompiledOnce ==
    /\ [](/\ Cardinality(SuccessfulRuns) <= 1
          /\ \A regex \in ReturnedRegexes : cell.value = Some(regex))
    /\ [][cell.value.some => cell'.value = cell.value]_vars

\* two tasks that waited for the initialiser and the initialiser itself all
\* hold the regex of the one successful run
C19_Witness ==
    /\ Cardinality(SuccessfulRuns) = 1
    /\ \E i \in SuccessfulRuns :
          /\ Cardinality(compile_runs[i].contenders) = 2
          /\ \A t \in Tasks : /\ Len(tasks[t].returned) > 0
                              /\ tasks[t].returned[1] = [ok |-> TRUE, regex |-> cell.value.v]

-----------------------------------------------------------------------------
(* sanitize_url_for_label (server/handlers.rs) and the part of              *)
(* url::Url::parse it depends on: scheme, authority, host and port.         *)
(* Hosts are domain names that do not end in a number.                      *)

\* the first index from i on whose character is one of stops, or Len(s) + 1
RECURSIVE Find(_, _, _)
Find(s, i, stops) ==
    IF i > Len(s) THEN Len(s) + 1
    ELSE IF s[i] \in stops THEN i
    ELSE Find(s, i + 1, stops)

\* the last index of c in s, or 0
RECURSIVE FindLast(_, _, _)
FindLast(s, c, i) ==
    IF i = 0 THEN 0
    ELSE IF s[i] = c THEN i
    ELSE FindLast(s, c, i - 1)

\* str::trim_start_matches: the prefix is removed as often as it repeats
RECURSIVE trim_start_matches(_, _)
trim_start_matches(s, prefix) ==
    IF Len(prefix) > 0 /\ StartsWith(s, prefix)
    THEN trim_start_matches(SubSeq(s, Len(prefix) + 1, Len(s)), prefix)
    ELSE s

\* the index of the ':' that ends the scheme, or 0 when the input has none:
\* a scheme is a letter followed by letters, digits, '+', '-' and '.'
RECURSIVE SchemeScan(_, _)
SchemeScan(s, i) ==
    IF i > Len(s) THEN 0
    ELSE IF s[i] = ":" THEN i
    ELSE IF IsAsciiAlphanumeric(s[i]) \/ s[i] \in {"+", "-", "."} THEN SchemeScan(s, i + 1)
    ELSE 0
SchemeEnd(s) ==
    IF Len(s) = 0 \/ ~IsAsciiAlphabetic(s[1]) THEN 0 ELSE SchemeScan(s, 2)

S_http == <<"h", "t", "t", "p">>
S_https == <<"h", "t", "t", "p", "s">>

\* the default port of a special scheme
DefaultPort(scheme) ==
    IF scheme = S_http THEN Some(80)
    ELSE IF scheme = S_https THEN Some(443)
    ELSE None
IsSpecial(scheme) == DefaultPort(scheme).some

MaxPort == 65535

\* the decimal value of a run of digits, or MaxPort + 1 once it is too large
RECURSIVE PortValue(_, _, _)
PortValue(digits, i, acc) ==
    IF i > Len(digits) THEN acc
    ELSE IF acc * 10 + DigitValue(digits[i]) > MaxPort THEN MaxPort + 1
    ELSE PortValue(digits, i + 1, acc * 10 + DigitValue(digits[i]))

\* the port after the host: digits only, at most 65535; none when empty or
\* when it is the default port of the scheme
ParsePort(text, scheme) ==
    IF \E i \in 1..Len(text) : ~IsAsciiDigit(text[i])
    THEN [ok |-> FALSE, err |-> "InvalidPort"]
    ELSE IF Len(text) = 0 THEN [ok |-> TRUE, port |-> None]
    ELSE IF PortValue(text, 1, 0) > MaxPort THEN [ok |-> FALSE, err |-> "InvalidPort"]
    ELSE IF DefaultPort(scheme) = Some(PortValue(text, 1, 0)) THEN [ok |-> TRUE, port |-> None]
    ELSE [ok |-> TRUE, port |-> Some(PortValue(text, 1, 0))]

\* host and port of an authority whose userinfo, up to the last '@', is dropped
ParseHostPort(hostport, scheme) ==
    LET colon == Find(hostport, 1, {":"})
        host == SubSeq(hostport, 1, colon - 1)
        port == ParsePort(SubSeq(hostport, colon + 1, Len(hostport)), scheme)
    IN  IF Len(host) = 0
        THEN IF IsSpecial(scheme) THEN [ok |-> FALSE, err |-> "EmptyHost"]
             ELSE [ok |-> TRUE, host |-> None, port |-> None]
        ELSE IF ~port.ok THEN port
        ELSE [ok |-> TRUE, host |-> Some(to_lowercase(host)), port |-> port.port]

\* the authority starts at index i and ends before the first '/', '?' or '#'
\* (or '\' in a special scheme)
ParseAuthority(s, i, scheme) ==
    LET stop == Find(s, i, {"/", "?", "#"} \cup (IF IsSpecial(scheme) THEN {"\\"} ELSE {}))
        authority == SubSeq(s, i, stop - 1)
    IN  ParseHostPort(SubSeq(authority, FindLast(authority, "@", Len(authority)) + 1,
                             Len(authority)), scheme)

\* the first index from i on that is not a slash
RECURSIVE SkipSlashes(_, _)
SkipSlashes(s, i) ==
    IF i <= Len(s) /\ s[i] \in {"/", "\\"} THEN SkipSlashes(s, i + 1) ELSE i

\* url::Url::parse, reduced to what host_str() and port() return
UrlParse(s) ==
    LET colon == SchemeEnd(s)
        scheme == to_lowercase(SubSeq(s, 1, colon - 1))
    IN  IF colon = 0 THEN [ok |-> FALSE, err |-> "RelativeUrlWithoutBase"]
        ELSE IF IsSpecial(scheme) THEN ParseAuthority(s, SkipSlashes(s, colon + 1), scheme)
        ELSE IF StartsWith(SubSeq(s, colon + 1, Len(s)), <<"/", "/">>)
             THEN ParseAuthority(s, colon + 3, scheme)
        ELSE [ok |-> TRUE, host |-> None, port |-> None]

L_unknown == <<"u", "n", "k", "n", "o", "w", "n">>
P_http == <<"h", "t", "t", "p", ":", "/", "/">>
P_https == <<"h", "t", "t", "p", "s", ":", "/", "/">>

\* the fallback of sanitize_url_for_label: string manipulation
SanitizeFallback(url) ==
    LET without_scheme == trim_start_matches(trim_start_matches(url, P_http), P_https)
        after_at == SubSeq(without_scheme,
                           FindLast(without_scheme, "@", Len(without_scheme)) + 1,
                           Len(without_scheme))
    IN  SubSeq(after_at, 1, Find(after_at, 1, {"/"}) - 1)

SanitizeParsed(parsed) ==
    LET host == IF parsed.host.some THEN parsed.host.v ELSE L_unknown
    IN  IF parsed.port.some THEN host \o <<":">> \o FormatNat(parsed.port.v)
        ELSE host

sanitize_url_for_label(url) ==
    IF UrlParse(url).ok THEN SanitizeParsed(UrlParse(url)) ELSE SanitizeFallback(url)

-----------------------------------------------------------------------------
(* The target label of the configured Jolokia URL                          *)

\* a URL as the text of its parts
UrlString(parts) ==
    parts.scheme \o parts.credentials \o parts.host \o parts.port \o parts.path

UrlSchemes == {<<>>, P_http, P_https}
\* user:pass@ with a password of letters, and with a password that holds a '/'
UrlCredentials == {<<>>,
                   <<"u", ":", "p", "@">>,
                   <<"u", ":", "p", "/", "x", "@">>,
                   <<"u", ":", "9", "/", "x", "@">>}
UrlHosts == {<<"h">>, <<"7", "h">>, <<"H">>}
UrlPorts == {<<>>, <<":", "8">>, <<":", "8", "0">>, <<":", "4", "4", "3">>}
UrlPaths == {<<>>, <<"/", "j">>}

UrlParts == [scheme : UrlSchemes, credentials : UrlCredentials, host : UrlHosts,
             port : UrlPorts, path : UrlPaths]

InitUrl ==
    /\ ScrapeIdle /\ EngineIdle /\ RetryIdle /\ CollectIdle /\ MatchIdle /\ RulesIdle
    /\ FormatIdle /\ NameIdle /\ SubstIdle /\ CounterIdle /\ OnceIdle /\ UnitIdle
    /\ \E parts \in UrlParts : jolokia_url = UrlString(parts)
    /\ target_name = None

\* the metrics handler computes the target label of the configured URL
TargetName ==
    /\ ~target_name.some
    /\ target_name' = Some(sanitize_url_for_label(jolokia_url))
    /\ UNCHANGED jolokia_url
    /\ UNCHANGED <<matchVars, engineVars, retryVars, collectVars, scrapeVars>>
    /\ UNCHANGED <<formatVars, nameVars, substVars, counterVars, onceVars, unitVars>>

NextUrl == TargetName

SpecUrl == InitUrl /\ [][NextUrl]_vars

WithoutCredentials(parts) == [parts EXCEPT !.credentials = <<>>]

\* C20: the target label of a URL is the label of the same URL without its
\* user:pass@ part, and it is the URL's host:port or its host.
C20_LabelIndependentOfCredentials ==
    target_name.some =>
        \A parts \in UrlParts :
            jolokia_url = UrlString(parts) =>
                /\ target_name.v = sanitize_url_for_label(UrlString(WithoutCredentials(parts)))
                /\ target_name.v \in {to_lowercase(parts.host) \o parts.port,
                                      to_lowercase(parts.host)}

-----------------------------------------------------------------------------
(* The components exercised on their own                                   *)

coreVars == <<matchVars, engineVars, retryVars, collectVars, scrapeVars,
              formatVars, nameVars, substVars, urlVars, counterVars, onceVars>>

CoreIdle ==
    /\ ScrapeIdle /\ EngineIdle /\ RetryIdle /\ CollectIdle /\ MatchIdle /\ RulesIdle
    /\ FormatIdle /\ NameIdle /\ SubstIdle /\ UrlIdle /\ CounterIdle /\ OnceIdle

-----------------------------------------------------------------------------
(* AttributeValue::Integer(i).as_f64() (collector/parser.rs).  An i64 is    *)
(* its two's complement in four 16-bit limbs, least significant first; an   *)
(* f64 that came from an i64 is a sign and a whole magnitude of at most     *)
(* 2^63.                                                                    *)

I64_MIN == U64(0, 0, 0, 32768)
I64_MAX == U64(65535, 65535, 65535, 32767)
\* 1i64 << 53
Two53 == U64(0, 0, 0, 32)

IsNegative(i) == i[4] >= 32768

\* i64::wrapping_neg
WrappingNeg(i) == WrappingAdd([k \in 1..4 |-> 65535 - i[k]], U64_ONE)

\* a < b as i64
LessI64(a, b) ==
    IF IsNegative(a) # IsNegative(b) THEN IsNegative(a) ELSE LessU64(a, b)

\* i64::abs: -i for a negative i.  -i64::MIN does not fit: a build with
\* overflow checks panics, a build without them returns i64::MIN.
I64Abs(i, overflow_checks) ==
    IF ~IsNegative(i) THEN [ok |-> TRUE, v |-> i]
    ELSE IF i = I64_MIN /\ overflow_checks THEN [ok |-> FALSE]
    ELSE [ok |-> TRUE, v |-> WrappingNeg(i)]

RECURSIVE BitLen(_)
BitLen(x) == IF x = 0 THEN 0 ELSE 1 + BitLen(x \div 2)

RECURSIVE Pow2(_)
Pow2(n) == IF n = 0 THEN 1 ELSE 2 * Pow2(n - 1)

MantissaBits == 53

\* how many low bits of a magnitude do not fit in the mantissa
ExtraBits(m) == IF BitLen(m[4]) + 48 > MantissaBits THEN BitLen(m[4]) + 48 - MantissaBits ELSE 0

\* the magnitude rounded to 53 significant bits, ties to even
RoundMagnitude(m, extra) ==
    LET unit == Pow2(extra)
        rest == m[1] % unit
        down == [m EXCEPT ![1] = @ - rest]
        odd == (m[1] \div unit) % 2 = 1
    IN  IF extra = 0 THEN m
        ELSE IF 2 * rest > unit \/ (2 * rest = unit /\ odd)
             THEN WrappingAdd(down, U64(unit, 0, 0, 0))
        ELSE down

\* the magnitude of an i64, as a u64
Magnitude(i) == IF IsNegative(i) THEN WrappingNeg(i) ELSE i

\* i as f64
I64AsF64(i) ==
    [negative |-> IsNegative(i),
     magnitude |-> RoundMagnitude(Magnitude(i), ExtraBits(Magnitude(i)))]

\* the Integer arm of AttributeValue::as_f64: a panic, or Some(f64) with or
\* without the precision warning logged
IntegerAsF64(i, overflow_checks) ==
    LET abs == I64Abs(i, overflow_checks) IN
    IF ~abs.ok THEN [kind |-> "Panic"]
    ELSE [kind |-> "Some", value |-> I64AsF64(i), warned |-> LessI64(Two53, abs.v)]

\* the i64 values converted: around 0, around +-2^53, and up to both ends
I64Low == {0, 1, 2, 65535}
I64Mid == {0, 65535}
I64High == {0, 31, 32, 33, 16384, 32767, 32768, 32769, 65503, 65504, 65535}
I64Inputs == {U64(l0, l1, l1, l3) : l0 \in I64Low, l1 \in I64Mid, l3 \in I64High}

InitConversion ==
    /\ CoreIdle
    /\ GaugeIdle /\ HistogramIdle /\ InternalIdle /\ JavaRegexIdle /\ TypingIdle
    /\ \E i \in I64Inputs, overflow_checks \in BOOLEAN :
          conversion = [pc |-> "ready", i |-> i, overflow_checks |-> overflow_checks,
                        result |-> [kind |-> "NotReturned"]]

\* AttributeValue::Integer(i).as_f64()
AsF64Call ==
    /\ conversion.pc = "ready"
    /\ conversion' = [conversion EXCEPT
                          !.pc = "done",
                          !.result = IntegerAsF64(conversion.i, conversion.overflow_checks)]
    /\ UNCHANGED <<coreVars, gauge, histogram, internal, java_regex, typing>>

NextConversion == AsF64Call

SpecConversion == InitConversion /\ [][NextConversion]_vars

\* C21: for every i64 the conversion returns Some(i as f64) and never fails,
\* and the precision warning is logged exactly when |i| > 2^53.
C21_EveryIntegerConverts ==
    conversion.pc = "done" =>
        /\ conversion.result.kind = "Some"
        /\ conversion.result.value = I64AsF64(conversion.i)
        /\ conversion.result.warned <=> LessU64(Two53, Magnitude(conversion.i))

-----------------------------------------------------------------------------
(* Gauge (metrics.rs): an f64 kept as its bits in an AtomicU64.  The        *)
(* amounts are whole numbers, which f64 adds exactly and for which equal    *)
(* bits and equal values are the same thing.                                *)

NumGaugeTasks == 2
MaxGaugeCalls == 2

GaugeTasks == 1..NumGaugeTasks
GaugeAmounts == {1, 4}

\* Gauge::new
GaugeNew == 0

\* compare_exchange_weak finds the value it was given
CasMatches_Always(value, current) == TRUE
CasMatches(value, current) == value = current

\* the tasks of a component, none of which has called yet
GaugeTaskIdle == [pc |-> "idle", calls |-> 0, v |-> 0, current |-> 0]

InitGauge ==
    /\ CoreIdle
    /\ ConversionIdle /\ HistogramIdle /\ InternalIdle /\ JavaRegexIdle /\ TypingIdle
    /\ gauge = [pc |-> "shared", value |-> GaugeNew, applied |-> 0, contended |-> FALSE,
                tasks |-> [t \in GaugeTasks |-> GaugeTaskIdle]]

GaugeUnchanged == UNCHANGED <<coreVars, conversion, histogram, internal, java_regex, typing>>

\* a task calls gauge.inc(v)
GaugeInc(t) ==
    /\ gauge.tasks[t].pc = "idle"
    /\ gauge.tasks[t].calls < MaxGaugeCalls
    /\ \E v \in GaugeAmounts :
          gauge' = [gauge EXCEPT !.applied = @ + v,
                                 !.tasks[t].pc = "load",
                                 !.tasks[t].calls = @ + 1,
                                 !.tasks[t].v = v]
    /\ GaugeUnchanged

\* a task calls gauge.dec(v), which is inc(-v)
GaugeDec(t) ==
    /\ gauge.tasks[t].pc = "idle"
    /\ gauge.tasks[t].calls < MaxGaugeCalls
    /\ \E v \in GaugeAmounts :
          gauge' = [gauge EXCEPT !.applied = @ - v,
                                 !.tasks[t].pc = "load",
                                 !.tasks[t].calls = @ + 1,
                                 !.tasks[t].v = 0 - v]
    /\ GaugeUnchanged

\* let current = self.value.load(Relaxed)
GaugeLoad(t) ==
    /\ gauge.tasks[t].pc = "load"
    /\ gauge' = [gauge EXCEPT !.tasks[t].pc = "cas", !.tasks[t].current = gauge.value]
    /\ GaugeUnchanged

\* compare_exchange_weak succeeds: the sum is stored and the loop ends
GaugeCasOk(t) ==
    /\ gauge.tasks[t].pc = "cas"
    /\ CasMatches(gauge.value, gauge.tasks[t].current)
    /\ gauge' = [gauge EXCEPT !.value = gauge.tasks[t].current + gauge.tasks[t].v,
                              !.tasks[t].pc = "idle"]
    /\ GaugeUnchanged

\* compare_exchange_weak fails because another task stored in between
GaugeCasFail(t) ==
    /\ gauge.tasks[t].pc = "cas"
    /\ ~CasMatches(gauge.value, gauge.tasks[t].current)
    /\ gauge' = [gauge EXCEPT !.contended = TRUE, !.tasks[t].pc = "load"]
    /\ GaugeUnchanged

\* compare_exchange_weak fails although the value is the one given
GaugeCasSpurious(t) ==
    /\ gauge.tasks[t].pc = "cas"
    /\ CasMatches(gauge.value, gauge.tasks[t].current)
    /\ gauge' = [gauge EXCEPT !.tasks[t].pc = "load"]
    /\ GaugeUnchanged

NextGauge ==
    \E t \in GaugeTasks :
        \/ GaugeInc(t) \/ GaugeDec(t) \/ GaugeLoad(t)
        \/ GaugeCasOk(t) \/ GaugeCasFail(t) \/ GaugeCasSpurious(t)

\* every task is scheduled again and again, and a compare_exchange_weak that
\* is tried again and again on the current value does not fail every time
GaugeFairness ==
    \A t \in GaugeTasks :
        /\ WF_vars(GaugeInc(t) \/ GaugeDec(t))
        /\ WF_vars(GaugeLoad(t))
        /\ WF_vars(GaugeCasFail(t))
        /\ SF_vars(GaugeCasOk(t))

SpecGauge == InitGauge /\ [][NextGauge]_vars /\ GaugeFairness

GaugeAllReturned == \A t \in GaugeTasks : gauge.tasks[t].pc = "idle"
GaugeAllDone ==
    \A t \in GaugeTasks : gauge.tasks[t].pc = "idle" /\ gauge.tasks[t].calls = MaxGaugeCalls

\* C23: whenever every inc and dec called so far has returned, the gauge is
\* its initial value plus the increments minus the decrements, and every
\* call returns.
C23_NoLostGaugeUpdate ==
    /\ [](GaugeAllReturned => gauge.value = GaugeNew + gauge.applied)
    /\ \A t \in GaugeTasks : (gauge.tasks[t].pc # "idle") ~> (gauge.tasks[t].pc = "idle")

\* all calls returned after a compare-exchange lost against another task
C23_Witness ==
    /\ GaugeAllDone
    /\ gauge.contended
    /\ gauge.applied # 0
    /\ gauge.value = GaugeNew + gauge.applied

-----------------------------------------------------------------------------
(* Histogram (metrics.rs).  An f64 is a whole number, an infinity or NaN.  *)

F(n) == [kind |-> "num", n |-> n]
F_INFINITY == [kind |-> "inf", n |-> 0]
F_NEG_INFINITY == [kind |-> "neg_inf", n |-> 0]
F_NAN == [kind |-> "nan", n |-> 0]

\* a <= b on f64: false when either side is NaN
LeF64(a, b) ==
    CASE a.kind = "nan" \/ b.kind = "nan" -> FALSE
      [] a.kind = "neg_inf" \/ b.kind = "inf" -> TRUE
      [] a.kind = "inf" \/ b.kind = "neg_inf" -> FALSE
      [] OTHER -> a.n <= b.n

\* a + b on f64
AddF64(a, b) ==
    CASE a.kind = "nan" \/ b.kind = "nan" -> F_NAN
      [] a.kind = "inf" -> IF b.kind = "neg_inf" THEN F_NAN ELSE F_INFINITY
      [] a.kind = "neg_inf" -> IF b.kind = "inf" THEN F_NAN ELSE F_NEG_INFINITY
      [] b.kind \in {"inf", "neg_inf"} -> b
      [] OTHER -> F(a.n + b.n)

\* f64::is_infinite
IsInfinite(a) == a.kind \in {"inf", "neg_inf"}

\* sort_by(partial_cmp) of bounds none of which is NaN: insertion of x into a
\* sorted list, after the bounds that are <= x
RECURSIVE InsertSorted(_, _)
InsertSorted(sorted, x) ==
    IF sorted = <<>> THEN <<x>>
    ELSE IF LeF64(sorted[1], x) THEN <<sorted[1]>> \o InsertSorted(Tail(sorted), x)
    ELSE <<x>> \o sorted

RECURSIVE SortBounds(_)
SortBounds(buckets) ==
    IF buckets = <<>> THEN <<>>
    ELSE InsertSorted(SortBounds(SubSeq(buckets, 1, Len(buckets) - 1)), buckets[Len(buckets)])

\* the bounds of Histogram::new: sorted, with +Inf added unless the last
\* bound is infinite
HistogramBounds(sorted) ==
    IF sorted = <<>> \/ ~IsInfinite(sorted[Len(sorted)]) THEN Append(sorted, F_INFINITY)
    ELSE sorted

\* Histogram::new
HistogramNew(buckets) ==
    [buckets |-> HistogramBounds(SortBounds(buckets)),
     bucket_counts |-> [i \in 1..Len(HistogramBounds(SortBounds(buckets))) |-> 0],
     sum |-> F(0),
     count |-> 0]

NumObservers == 2
MaxObserveCalls == 2

Observers == 1..NumObservers

\* the bucket lists handed to Histogram::new
BucketLists == {<<>>, <<F(1), F(5)>>, <<F(5), F(1)>>, <<F(1), F_INFINITY>>, <<F_NEG_INFINITY>>}
\* the values observed
ObserveValues == {F(0), F(5), F(9), F_NAN}

InitHistogram ==
    /\ CoreIdle
    /\ ConversionIdle /\ GaugeIdle /\ InternalIdle /\ JavaRegexIdle /\ TypingIdle
    /\ \E buckets \in BucketLists :
          histogram = [pc |-> "shared", h |-> HistogramNew(buckets), completed |-> <<>>,
                       tasks |-> [t \in Observers |->
                                     [pc |-> "idle", calls |-> 0, v |-> F(0), current |-> F(0), i |-> 0]]]

HistogramUnchanged == UNCHANGED <<coreVars, conversion, gauge, internal, java_regex, typing>>

\* a task calls observe(v): self.count.fetch_add(1)
ObserveCount(t) ==
    /\ histogram.tasks[t].pc = "idle"
    /\ histogram.tasks[t].calls < MaxObserveCalls
    /\ \E v \in ObserveValues :
          histogram' = [histogram EXCEPT !.h.count = @ + 1,
                                         !.tasks[t].pc = "load",
                                         !.tasks[t].calls = @ + 1,
                                         !.tasks[t].v = v]
    /\ HistogramUnchanged

\* let current = self.sum.load(Relaxed)
ObserveLoad(t) ==
    /\ histogram.tasks[t].pc = "load"
    /\ histogram' = [histogram EXCEPT !.tasks[t].pc = "cas",
                                      !.tasks[t].current = histogram.h.sum]
    /\ HistogramUnchanged

\* where observe goes after the step at bucket i: the next bucket, or the end
\* of the call, which is noted in completed
AfterBucket(h, t, i) ==
    IF i < Len(h.h.buckets)
    THEN [h EXCEPT !.tasks[t].pc = "bucket", !.tasks[t].i = i + 1]
    ELSE [h EXCEPT !.tasks[t].pc = "idle", !.tasks[t].i = 0,
                   !.completed = Append(@, h.tasks[t].v)]

\* compare_exchange_weak on the sum succeeds
ObserveCasOk(t) ==
    /\ histogram.tasks[t].pc = "cas"
    /\ histogram.h.sum = histogram.tasks[t].current
    /\ histogram' = AfterBucket([histogram EXCEPT
                                    !.h.sum = AddF64(histogram.tasks[t].current, histogram.tasks[t].v)],
                                t, 0)
    /\ HistogramUnchanged

\* compare_exchange_weak fails, as it must when the sum has changed and as it
\* may at any time
ObserveCasFail(t) ==
    /\ histogram.tasks[t].pc = "cas"
    /\ histogram' = [histogram EXCEPT !.tasks[t].pc = "load"]
    /\ HistogramUnchanged

\* one iteration of the loop over the buckets
ObserveBucket(t) ==
    /\ histogram.tasks[t].pc = "bucket"
    /\ \E i \in {histogram.tasks[t].i} :
          histogram' =
              AfterBucket(IF LeF64(histogram.tasks[t].v, histogram.h.buckets[i])
                          THEN [histogram EXCEPT !.h.bucket_counts[i] = @ + 1]
                          ELSE histogram,
                          t, i)
    /\ HistogramUnchanged

NextHistogram ==
    \E t \in Observers :
        ObserveCount(t) \/ ObserveLoad(t) \/ ObserveCasOk(t) \/ ObserveCasFail(t) \/ ObserveBucket(t)

SpecHistogram == InitHistogram /\ [][NextHistogram]_vars

\* Histogram::get_count
get_count(h) == h.count

\* how many of the completed observations are <= bound
ObservationsUpTo(bound) ==
    Cardinality({k \in 1..Len(histogram.completed) : LeF64(histogram.completed[k], bound)})

NoObserveRunning == \A t \in Observers : histogram.tasks[t].pc = "idle"

\* C24: when no observe call is running, every bucket counts the completed
\* observations <= its bound, the counts do not decrease along the buckets,
\* and the last bucket, the +Inf bucket, counts as many as get_count().
C24_BucketsAreCumulative ==
    NoObserveRunning =>
        \A counts \in {histogram.h.bucket_counts}, bounds \in {histogram.h.buckets} :
            /\ \A i \in 1..Len(bounds) : counts[i] = ObservationsUpTo(bounds[i])
            /\ \A i \in 1..(Len(bounds) - 1) : counts[i] <= counts[i + 1]
            /\ counts[Len(bounds)] = get_count(histogram.h)

\* the same for observations that are numbers and bucket lists without -Inf
CumulativeForNumbers ==
    (/\ NoObserveRunning
     /\ \A k \in 1..Len(histogram.completed) : histogram.completed[k].kind = "num"
     /\ \A t \in Observers : histogram.tasks[t].calls > 0 => histogram.tasks[t].v.kind = "num"
     /\ histogram.h.buckets[1] # F_NEG_INFINITY)
    => C24_BucketsAreCumulative

-----------------------------------------------------------------------------
(* InternalMetrics (metrics.rs): the targets and rules maps behind their    *)
(* RwLocks.  Every AtomicU64 is a cell of atoms, and a record holds the     *)
(* indices of its cells, so that a copy can be told from a shared record.   *)
(* One lock stands for both RwLocks; the duration histogram is its count.   *)

NumRecorders == 2
MaxRecordCalls == 2
MaxHandleIncs == 1

Recorders == 1..NumRecorders
TargetKeys == {"h:8", "g:9"}
RuleKeys == {"p"}

\* TargetMetrics::default, its atomics allocated after the existing ones
TargetMetricsDefault(atoms) ==
    [rec |-> [scrape_success_total |-> Len(atoms) + 1,
              scrape_failure_total |-> Len(atoms) + 2,
              scrape_duration_seconds |-> Len(atoms) + 3],
     atoms |-> atoms \o <<0, 0, 0>>]

\* RuleMetrics::default
RuleMetricsDefault(atoms) ==
    [rec |-> [matches_total |-> Len(atoms) + 1, errors_total |-> Len(atoms) + 2],
     atoms |-> atoms \o <<0, 0>>]

\* which cell a cloned Counter or Histogram uses: a new one
CloneCell_Shared(id, fresh) == id
CloneCell(id, fresh) == fresh

\* TargetMetrics::clone: every field cloned, each loading the current value
TargetMetricsClone(atoms, rec) ==
    [rec |-> [scrape_success_total |-> CloneCell(rec.scrape_success_total, Len(atoms) + 1),
              scrape_failure_total |-> CloneCell(rec.scrape_failure_total, Len(atoms) + 2),
              scrape_duration_seconds |-> CloneCell(rec.scrape_duration_seconds, Len(atoms) + 3)],
     atoms |-> atoms \o <<atoms[rec.scrape_success_total], atoms[rec.scrape_failure_total],
                          atoms[rec.scrape_duration_seconds]>>]

\* RuleMetrics::clone
RuleMetricsClone(atoms, rec) ==
    [rec |-> [matches_total |-> CloneCell(rec.matches_total, Len(atoms) + 1),
              errors_total |-> CloneCell(rec.errors_total, Len(atoms) + 2)],
     atoms |-> atoms \o <<atoms[rec.matches_total], atoms[rec.errors_total]>>]

\* whether entry(key) finds the key vacant, so that or_default inserts
EntryVacant_Always(map, key) == TRUE
EntryVacant(map, key) == ~map[key].some

\* Histogram::observe, as far as the count goes
ObserveCount_Skipped(count) == count
ObserveCountOf(count) == count + 1

\* the values of the cells of a record
Values(atoms, rec) == [f \in DOMAIN rec |-> atoms[rec[f]]]

InternalMetricsNew ==
    [pc |-> "shared",
     atoms |-> <<>>,
     targets |-> [k \in TargetKeys |-> None],
     rules |-> [k \in RuleKeys |-> None],
     writer |-> 0,
     tasks |-> [t \in Recorders |-> [pc |-> "idle", calls |-> 0, op |-> "", key |-> ""]],
     handles |-> <<>>,
     created |-> [k \in TargetKeys \cup RuleKeys |-> 0],
     completed |-> [k \in TargetKeys \cup RuleKeys |-> 0],
     raced |-> FALSE]

InitInternal ==
    /\ CoreIdle
    /\ ConversionIdle /\ GaugeIdle /\ HistogramIdle /\ JavaRegexIdle /\ TypingIdle
    /\ internal = InternalMetricsNew

InternalUnchanged == UNCHANGED <<coreVars, conversion, gauge, histogram, java_regex, typing>>

\* targets.entry(key).or_default()
TargetEntry(im, key) ==
    IF EntryVacant(im.targets, key)
    THEN [im EXCEPT !.atoms = TargetMetricsDefault(im.atoms).atoms,
                    !.targets[key] = Some(TargetMetricsDefault(im.atoms).rec),
                    !.created[key] = @ + 1]
    ELSE im

\* rules.entry(key).or_default()
RuleEntry(im, key) ==
    IF EntryVacant(im.rules, key)
    THEN [im EXCEPT !.atoms = RuleMetricsDefault(im.atoms).atoms,
                    !.rules[key] = Some(RuleMetricsDefault(im.atoms).rec),
                    !.created[key] = @ + 1]
    ELSE im

\* the copy handed to the caller, noted with the values it had
TargetHandle(im, key) ==
    [im EXCEPT !.atoms = TargetMetricsClone(im.atoms, im.targets[key].v).atoms,
               !.handles = Append(@, [kind |-> "target", key |-> key,
                                      rec |-> TargetMetricsClone(im.atoms, im.targets[key].v).rec,
                                      snap |-> Values(im.atoms, im.targets[key].v),
                                      incs |-> 0])]

RuleHandle(im, key) ==
    [im EXCEPT !.atoms = RuleMetricsClone(im.atoms, im.rules[key].v).atoms,
               !.handles = Append(@, [kind |-> "rule", key |-> key,
                                      rec |-> RuleMetricsClone(im.atoms, im.rules[key].v).rec,
                                      snap |-> Values(im.atoms, im.rules[key].v),
                                      incs |-> 0])]

\* record_scrape_success / record_scrape_failure: the write lock is taken and
\* the record found or inserted
RecordScrapeLock(t) ==
    /\ internal.tasks[t].pc = "idle"
    /\ internal.tasks[t].calls < MaxRecordCalls
    /\ internal.writer = 0
    /\ \E key \in TargetKeys, op \in {"scrape_success_total", "scrape_failure_total"} :
          internal' = [TargetEntry(internal, key) EXCEPT
                           !.writer = t,
                           !.tasks[t] = [pc |-> "inc", calls |-> internal.tasks[t].calls + 1,
                                         op |-> op, key |-> key]]
    /\ InternalUnchanged

\* metrics.scrape_success_total.inc() / metrics.scrape_failure_total.inc()
RecordScrapeInc(t) ==
    /\ internal.tasks[t].pc = "inc"
    /\ \E id \in {internal.targets[internal.tasks[t].key].v[internal.tasks[t].op]} :
          internal' = [internal EXCEPT !.atoms[id] = @ + 1, !.tasks[t].pc = "observe"]
    /\ InternalUnchanged

\* metrics.scrape_duration_seconds.observe(..), and the lock is dropped
RecordScrapeObserve(t) ==
    /\ internal.tasks[t].pc = "observe"
    /\ \E id \in {internal.targets[internal.tasks[t].key].v.scrape_duration_seconds} :
          internal' = [internal EXCEPT !.atoms[id] = ObserveCountOf(@),
                                       !.writer = 0,
                                       !.completed[internal.tasks[t].key] = @ + 1,
                                       !.tasks[t].pc = "idle"]
    /\ InternalUnchanged

\* record_rule_match / record_rule_error: the write lock is taken and the
\* record found or inserted
RecordRuleLock(t) ==
    /\ internal.tasks[t].pc = "idle"
    /\ internal.tasks[t].calls < MaxRecordCalls
    /\ internal.writer = 0
    /\ \E key \in RuleKeys, op \in {"matches_total", "errors_total"} :
          internal' = [RuleEntry(internal, key) EXCEPT
                           !.writer = t,
                           !.tasks[t] = [pc |-> "rule_inc", calls |-> internal.tasks[t].calls + 1,
                                         op |-> op, key |-> key]]
    /\ InternalUnchanged

\* metrics.matches_total.inc() / metrics.errors_total.inc(), and the lock is dropped
RecordRuleInc(t) ==
    /\ internal.tasks[t].pc = "rule_inc"
    /\ \E id \in {internal.rules[internal.tasks[t].key].v[internal.tasks[t].op]} :
          internal' = [internal EXCEPT !.atoms[id] = @ + 1,
                                       !.writer = 0,
                                       !.completed[internal.tasks[t].key] = @ + 1,
                                       !.tasks[t].pc = "idle"]
    /\ InternalUnchanged

\* target(key) under the read lock: a copy of the record, or nothing found
TargetGet(t) ==
    /\ internal.tasks[t].pc = "idle"
    /\ internal.tasks[t].calls < MaxRecordCalls
    /\ internal.writer = 0
    /\ \E key \in TargetKeys :
          internal' =
              IF internal.targets[key].some
              THEN [TargetHandle(internal, key) EXCEPT !.tasks[t].calls = @ + 1]
              ELSE [internal EXCEPT !.tasks[t] = [pc |-> "target_write",
                                                  calls |-> internal.tasks[t].calls + 1,
                                                  op |-> "target", key |-> key]]
    /\ InternalUnchanged

\* target(key) under the write lock: entry(key).or_default().clone()
TargetInsert(t) ==
    /\ internal.tasks[t].pc = "target_write"
    /\ internal.writer = 0
    /\ \E key \in {internal.tasks[t].key} :
          internal' = [TargetHandle(TargetEntry(internal, key), key) EXCEPT
                           !.raced = @ \/ internal.targets[key].some,
                           !.tasks[t].pc = "idle"]
    /\ InternalUnchanged

\* rule(key) under the read lock
RuleGet(t) ==
    /\ internal.tasks[t].pc = "idle"
    /\ internal.tasks[t].calls < MaxRecordCalls
    /\ internal.writer = 0
    /\ \E key \in RuleKeys :
          internal' =
              IF internal.rules[key].some
              THEN [RuleHandle(internal, key) EXCEPT !.tasks[t].calls = @ + 1]
              ELSE [internal EXCEPT !.tasks[t] = [pc |-> "rule_write",
                                                  calls |-> internal.tasks[t].calls + 1,
                                                  op |-> "rule", key |-> key]]
    /\ InternalUnchanged

\* rule(key) under the write lock
RuleInsert(t) ==
    /\ internal.tasks[t].pc = "rule_write"
    /\ internal.writer = 0
    /\ \E key \in {internal.tasks[t].key} :
          internal' = [RuleHandle(RuleEntry(internal, key), key) EXCEPT
                           !.raced = @ \/ internal.rules[key].some,
                           !.tasks[t].pc = "idle"]
    /\ InternalUnchanged

\* the first counter of a record: scrape_success_total or matches_total
FirstCounter(handle) ==
    IF handle.kind = "target" THEN handle.rec.scrape_success_total ELSE handle.rec.matches_total

\* the holder of a returned record increments its first counter
HandleInc ==
    /\ \E i \in 1..Len(internal.handles) :
          /\ internal.handles[i].incs < MaxHandleIncs
          /\ internal' = [internal EXCEPT !.atoms[FirstCounter(internal.handles[i])] = @ + 1,
                                          !.handles[i].incs = @ + 1]
    /\ InternalUnchanged

NextInternal ==
    \/ \E t \in Recorders :
          \/ RecordScrapeLock(t) \/ RecordScrapeInc(t) \/ RecordScrapeObserve(t)
          \/ RecordRuleLock(t) \/ RecordRuleInc(t)
          \/ TargetGet(t) \/ TargetInsert(t) \/ RuleGet(t) \/ RuleInsert(t)
    \/ HandleInc

SpecInternal == InitInternal /\ [][NextInternal]_vars

NoRecordRunning ==
    \A t \in Recorders : internal.tasks[t].pc \notin {"inc", "observe", "rule_inc"}

TargetSum(key) ==
    internal.atoms[internal.targets[key].v.scrape_success_total]
        + internal.atoms[internal.targets[key].v.scrape_failure_total]

RuleSum(key) ==
    internal.atoms[internal.rules[key].v.matches_total]
        + internal.atoms[internal.rules[key].v.errors_total]

\* C25: a key's record is created at most once, however many tasks meet on
\* the unseen key, and when no record_* call is running the counters of a
\* key sum to the number of record_* calls completed for it.
C25_OneRecordNoLostIncrement ==
    /\ \A key \in TargetKeys \cup RuleKeys : internal.created[key] <= 1
    /\ NoRecordRunning =>
          /\ \A key \in TargetKeys :
                IF internal.targets[key].some
                THEN internal.created[key] = 1 /\ TargetSum(key) = internal.completed[key]
                ELSE internal.completed[key] = 0
          /\ \A key \in RuleKeys :
                IF internal.rules[key].some
                THEN internal.created[key] = 1 /\ RuleSum(key) = internal.completed[key]
                ELSE internal.completed[key] = 0

\* both tasks recorded to one target key, and a task that had found the key
\* missing found it inserted when it got the write lock
C25_Witness ==
    /\ NoRecordRunning
    /\ internal.raced
    /\ \E key \in TargetKeys :
          /\ internal.completed[key] >= 2
          /\ internal.created[key] = 1
          /\ TargetSum(key) = internal.completed[key]

NoRecordScrapeRunning ==
    \A t \in Recorders : internal.tasks[t].pc \notin {"inc", "observe"}

\* C28: whenever no record_scrape_* call is in progress, for every target key
\* scrape_success_total + scrape_failure_total equals the count of the
\* duration histogram and the number of record_scrape_* calls completed.
C28_ScrapeCountersMatchHistogram ==
    NoRecordScrapeRunning =>
        \A key \in TargetKeys :
            IF internal.targets[key].some
            THEN /\ TargetSum(key) = internal.completed[key]
                 /\ internal.atoms[internal.targets[key].v.scrape_duration_seconds]
                        = internal.completed[key]
            ELSE internal.completed[key] = 0

\* a key with a success and a failure recorded, and nothing running
C28_Witness ==
    /\ NoRecordScrapeRunning
    /\ \E key \in TargetKeys :
          /\ internal.targets[key].some
          /\ internal.atoms[internal.targets[key].v.scrape_success_total] >= 1
          /\ internal.atoms[internal.targets[key].v.scrape_failure_total] >= 1
          /\ internal.atoms[internal.targets[key].v.scrape_duration_seconds] >= 2

\* the values a returned record must show: those it was copied with, and
\* the increments its holder made
HandleExpected(handle) ==
    [f \in DOMAIN handle.snap |->
        IF handle.rec[f] = FirstCounter(handle) THEN handle.snap[f] + handle.incs
                                                ELSE handle.snap[f]]

\* C29: a record returned by target(key) or rule(key) is an independent copy:
\* it shows the values it was copied with and its holder's increments only,
\* whatever is recorded later, and the registry's counters show the
\* record_* calls only, whatever the holders increment.
C29_ReturnedRecordIsIndependent ==
    /\ \A i \in 1..Len(internal.handles) :
          Values(internal.atoms, internal.handles[i].rec) = HandleExpected(internal.handles[i])
    /\ NoRecordRunning =>
          /\ \A key \in TargetKeys :
                internal.targets[key].some => TargetSum(key) = internal.completed[key]
          /\ \A key \in RuleKeys :
                internal.rules[key].some => RuleSum(key) = internal.completed[key]

SnapSum(handle) ==
    IF handle.kind = "target"
    THEN handle.snap.scrape_success_total + handle.snap.scrape_failure_total
    ELSE handle.snap.matches_total + handle.snap.errors_total

\* a returned record was incremented by its holder, and a record_* call for
\* its key completed after it was returned
C29_Witness ==
    /\ NoRecordRunning
    /\ \E i \in 1..Len(internal.handles) :
          /\ internal.handles[i].incs = 1
          /\ SnapSum(internal.handles[i]) < internal.completed[internal.handles[i].key]

-----------------------------------------------------------------------------
(* The metric type of a configured rule, from the configuration to the     *)
(* exposition text (server/mod.rs, engine.rs, formatter.rs)                *)

T_histogram == <<"h", "i", "s", "t", "o", "g", "r", "a", "m">>
T_Histogram == <<"H", "i", "s", "t", "o", "g", "r", "a", "m">>

\* MetricType::deserialize: the type a type name stands for
MetricTypeDeserialize(s) ==
    CASE to_lowercase(s) = T_gauge -> [ok |-> TRUE, v |-> "Gauge"]
      [] to_lowercase(s) = T_counter -> [ok |-> TRUE, v |-> "Counter"]
      [] to_lowercase(s) = T_histogram -> [ok |-> TRUE, v |-> "Histogram"]
      [] to_lowercase(s) = T_untyped -> [ok |-> TRUE, v |-> "Untyped"]
      [] OTHER -> [ok |-> FALSE]

ConfiguredTypes == {T_gauge, T_Gauge, T_counter, T_histogram, T_Histogram, T_untyped}

\* a rule of the pool with another type
WithType(r, type) == [r EXCEPT !.type = type]

TypedRulePool == {CR_attr, CR_all, ER_T}

InitTyping ==
    /\ CoreIdle
    /\ ConversionIdle /\ GaugeIdle /\ HistogramIdle /\ InternalIdle /\ JavaRegexIdle
    /\ \E r \in TypedRulePool, type \in ConfiguredTypes, batch \in Batches :
          typing = [pc |-> "configured",
                    config |-> <<WithType(r, type)>>,
                    responses |-> batch,
                    rules |-> <<>>,
                    metrics |-> <<>>,
                    output |-> <<>>]

TypingUnchanged == UNCHANGED <<coreVars, conversion, gauge, histogram, internal, java_regex>>

\* config_to_ruleset(&config)
TypingRuleset ==
    /\ typing.pc = "configured"
    /\ typing' = [typing EXCEPT !.rules = config_to_ruleset(typing.config), !.pc = "built"]
    /\ TypingUnchanged

\* ruleset.compile_all() at start-up, then engine.transform(&responses)
TypingTransform ==
    /\ typing.pc = "built"
    /\ compile_all(typing.rules).ok
    /\ \E result \in {transform(Engine(typing.rules, FALSE, FALSE),
                                compile_all(typing.rules).compiled, "asc", typing.responses)} :
          typing' = [typing EXCEPT !.metrics = result.metrics, !.pc = "transformed"]
    /\ TypingUnchanged

\* formatter.format(&metrics)
TypingFormat ==
    /\ typing.pc = "transformed"
    /\ typing' = [typing EXCEPT !.output = format(PrometheusFormatter(FALSE), typing.metrics),
                                !.pc = "formatted"]
    /\ TypingUnchanged

NextTyping == TypingRuleset \/ TypingTransform \/ TypingFormat

SpecTyping == InitTyping /\ [][NextTyping]_vars

\* the `# TYPE` lines of the output
TypeLines(output) ==
    {Lines(output)[i] : i \in {j \in 1..Len(Lines(output)) : LineKind(Lines(output)[j]) = "type"}}

\* the last word of a line
LastWord(line) == SubSeq(line, FindLast(line, " ", Len(line)) + 1, Len(line))

\* every metric and every `# TYPE` line carries the given type
TypeCarried(metric_type) ==
    /\ \A i \in 1..Len(typing.metrics) : typing.metrics[i].metric_type = metric_type
    /\ \A l \in TypeLines(typing.output) : LastWord(l) = MetricTypeStr(metric_type)

\* C26: the metric type configured on a rule is the type of every metric the
\* rule emits and the type on their `# TYPE` line, for gauge, counter,
\* histogram and untyped.
C26_TypeCarriedUnchanged ==
    typing.pc = "formatted" =>
        TypeCarried(MetricTypeDeserialize(typing.config[1].type).v)

\* the same for the types other than histogram
TypeCarriedButHistogram ==
    (typing.pc = "formatted" /\ to_lowercase(typing.config[1].type) # T_histogram) =>
        /\ TypeCarried(MetricTypeDeserialize(typing.config[1].type).v)
        /\ typing.metrics # <<>> => TypeLines(typing.output) # {}

-----------------------------------------------------------------------------
(* The rule counters of a scrape (handlers.rs, metrics.rs)                 *)

\* the leaves of a transform that a rule with the pattern matched
LeavesMatched(tr, pattern) ==
    {k \in 1..Len(tr.produced) : rules[tr.produced[k].rule].pattern = pattern}

\* C27: over one scrape rjmx_rule_matches_total of a rule increases by the
\* number of leaves the rule matched, and stays as it is for a rule that
\* matched no leaf.
C27_RuleMatchesCountLeaves ==
    [][sc'.scrapes = sc.scrapes + 1 =>
          \A i \in 1..Len(rules) :
              RuleMatchesTotal(registry', rules[i].pattern)
                  = RuleMatchesTotal(registry, rules[i].pattern)
                        + Cardinality(LeavesMatched(sc'.transform, rules[i].pattern))]_vars

-----------------------------------------------------------------------------
(* convert_java_regex on its own (transformer/rules.rs)                    *)

MaxPatternLen == 4

PatternChars == {"(", "?", "<", "=", "+", "*", "[", "]", "\\", "a"}

JavaPatterns == SeqsUpTo(PatternChars, MaxPatternLen)

InitJavaRegex ==
    /\ CoreIdle
    /\ ConversionIdle /\ GaugeIdle /\ HistogramIdle /\ InternalIdle /\ TypingIdle
    /\ \E pattern \in JavaPatterns :
          java_regex = [pc |-> "ready", pattern |-> pattern, result |-> NoResult]

\* convert_java_regex(pattern)
ConvertCall ==
    /\ java_regex.pc = "ready"
    /\ java_regex' = [java_regex EXCEPT !.result = convert_java_regex(java_regex.pattern),
                                        !.pc = "done"]
    /\ UNCHANGED <<coreVars, conversion, gauge, histogram, internal, typing>>

NextJavaRegex == ConvertCall

SpecJavaRegex == InitJavaRegex /\ [][NextJavaRegex]_vars

\* How a Java pattern reads from position i on, `depth` character classes
\* being open: "plain", or "special" when a named group, a possessive
\* quantifier or one of the rejected groups stands outside every class and
\* escape, or "unclosed" when a class is left open.
RECURSIVE JavaReading(_, _, _)
JavaReading(p, i, depth) ==
    IF i > Len(p) THEN (IF depth = 0 THEN "plain" ELSE "unclosed")
    ELSE CASE p[i] = "\\" -> JavaReading(p, i + 2, depth)
           [] p[i] = "[" -> JavaReading(p, i + 1, depth + 1)
           [] p[i] = "]" /\ depth > 0 -> JavaReading(p, i + 1, depth - 1)
           [] depth > 0 -> JavaReading(p, i + 1, depth)
           [] p[i] = "(" /\ CharAt(p, i + 1) = "?"
                  /\ CharAt(p, i + 2) \in {"<", ">", "=", "!"} -> "special"
           [] p[i] \in {"+", "*", "?"} /\ CharAt(p, i + 1) = "+" -> "special"
           [] OTHER -> JavaReading(p, i + 1, depth)

Plain(pattern) == JavaReading(pattern, 1, 0) = "plain"

\* C30: a pattern with no named group, no possessive quantifier and no
\* rejected construct is returned unchanged, also when `+`, `*`, `?` or `(?`
\* are members of a character class or follow an escape.
C30_PlainPatternUnchanged ==
    (java_regex.pc = "done" /\ Plain(java_regex.pattern)) =>
        java_regex.result = [ok |-> TRUE, s |-> java_regex.pattern]

\* the same for the patterns without a character class
PlainWithoutClassUnchanged ==
    (java_regex.pc = "done" /\ Plain(java_regex.pattern)
        /\ \A i \in 1..Len(java_regex.pattern) :
               java_regex.pattern[i] = "[" => (i > 1 /\ java_regex.pattern[i - 1] = "\\")) =>
        java_regex.result = [ok |-> TRUE, s |-> java_regex.pattern]

====
